---- MODULE Spec2Model ----
(***************************************************************************)
(* Landlord Case File (toolstack-mietakte): the in-memory document, the    *)
(* localStorage slot it is persisted to, and the handlers of               *)
(* src/src/LandlordCaseFileApp.jsx that change them; further down, the     *)
(* RentIt variant of src/unnamed/part_000 (RentSpec).                      *)
(*                                                                         *)
(* JavaScript values are modelled as follows.  Objects are records whose   *)
(* domain is the set of own properties, so a missing property is a missing *)
(* field.  Arrays are sequences.  Strings are strings; ids are the opaque  *)
(* strings uid() returns.  null in an id position is the value Null.       *)
(* Numbers are tagged records (Num, NaN), and the JSON null a number       *)
(* position can hold after a round trip is NumNull.                        *)
(***************************************************************************)
EXTENDS Integers, Sequences, FiniteSets, TLC

\* ------------------------------------------------------------------ bounds

\* uid() calls per run: every fresh id is "u1" .. "u<MaxIds>".
MaxIds == 2

\* User operations (handler calls) per run after the mount.
MaxOps == 2

\* Attachment reads (FileReader) that may be in flight at once.
MaxReads == 1

\* Files exported in one run.
MaxExports == 1

\* ------------------------------------------------------- program constants

LS_KEY == "landlord_case_file_app_v1"

maxMB == 2

MaxBytes == maxMB * 1024 * 1024

\* The capacity of the localStorage slot in characters: setItem throws once
\* the serialized document is longer.
QuotaChars == 5 * 1024 * 1024

TABS == <<"snapshot", "incidents", "defects", "documents", "letters", "export">>

\* ------------------------------------------------------------ JS values

Null == "null"

Undefined == "undefined"

Num(n) == [t |-> "num", v |-> n]

NaN == [t |-> "nan", v |-> 0]

NumNull == [t |-> "null", v |-> 0]

\* o.k, undefined when o has no own property k.
Get(o, k) == IF k \in DOMAIN o THEN o[k] ELSE Undefined

\* (o.k || []) for a property that holds an array when present.
ArrOr(o, k) == IF k \in DOMAIN o THEN o[k] ELSE <<>>

\* { ...o, ...p }
Merge(o, p) == p @@ o

\* [x, ...arr]
Prepend(x, arr) == <<x>> \o arr

\* The ids of the entities of an array, in order.
Ids(arr) == [n \in 1..Len(arr) |-> arr[n].id]

IdSet(arr) == {arr[n].id : n \in 1..Len(arr)}

\* arr.find((x) => x.id === id): the index of the first match, 0 when none.
FindIdx(arr, id) ==
  IF \E n \in 1..Len(arr) : arr[n].id = id
  THEN CHOOSE n \in 1..Len(arr) :
         arr[n].id = id /\ \A m \in 1..(n - 1) : arr[m].id # id
  ELSE 0

\* Number(text || 0) for the texts a user types into the impact field: the
\* empty string falls to 0, a decimal literal is its value, anything else NaN.
NumberOfInput(text) ==
  CASE text = "" -> Num(0)
    [] text = "0" -> Num(0)
    [] text = "60" -> Num(60)
    [] text = "70" -> Num(70)
    [] text = "-50" -> Num(-50)
    [] OTHER -> NaN

\* ------------------------------------------------------------------ JSON

\* JSON.stringify of a number: NaN (and the infinities) are written as null.
JsonNum(x) == IF x.t = "num" THEN x ELSE NumNull

JsonDefect(d) ==
  IF "impactPercent" \in DOMAIN d
  THEN [d EXCEPT !.impactPercent = JsonNum(@)]
  ELSE d

JsonCase(c) ==
  IF "defects" \in DOMAIN c
  THEN [c EXCEPT !.defects = [n \in 1..Len(@) |-> JsonDefect(@[n])]]
  ELSE c

\* The JSON value JSON.stringify(doc) denotes.  Numbers occur in a document
\* only as a defect's impactPercent and an attachment's size (always finite);
\* every other value is a string, null, an array or an object and is written
\* as it is.
JsonValue(doc) ==
  IF "cases" \in DOMAIN doc
  THEN [doc EXCEPT !.cases = [n \in 1..Len(@) |-> JsonCase(@[n])]]
  ELSE doc

\* The text of a file or of the storage slot: absent (getItem returns null),
\* text that JSON.parse rejects, the JSON text null, or a JSON object.
Absent == [t |-> "absent"]

Garbage == [t |-> "garbage"]

JsonNullText == [t |-> "null"]

JsonText(v) == [t |-> "obj", v |-> v]

\* JSON.stringify(app)
Stringify(doc) == JsonText(JsonValue(doc))

\* The length of a data URL that encodes size bytes in base64.
DataUrlLen(size) == 4 * ((size + 2) \div 3)

RECURSIVE SumSeq(_)
SumSeq(s) == IF s = <<>> THEN 0 ELSE Head(s) + SumSeq(Tail(s))

AttachmentChars(i) ==
  SumSeq([n \in 1..Len(ArrOr(i, "attachments")) |->
            DataUrlLen(ArrOr(i, "attachments")[n].size)])

CaseChars(c) ==
  SumSeq([n \in 1..Len(ArrOr(c, "incidents")) |->
            AttachmentChars(ArrOr(c, "incidents")[n])])

\* The length of the serialized document, counted by what dominates it: the
\* inline data URLs of the attachments.
TextChars(text) ==
  IF text.t = "obj" /\ "cases" \in DOMAIN text.v
  THEN SumSeq([n \in 1..Len(text.v.cases) |-> CaseChars(text.v.cases[n])])
  ELSE 0

\* localStorage.setItem(LS_KEY, text) returns normally; otherwise it throws.
StorageAccepts(text) == TextChars(text) <= QuotaChars

\* The default empty document of the useState initializer.
BaseDoc ==
  [activeCaseId |-> Null, cases |-> <<>>, ui |-> [tab |-> "snapshot", query |-> ""]]

\* A safeParse whose catch returns a document of its own, without ui, instead
\* of the fallback it was given.
safeParseNoCatch(s, fallback) ==
  CASE s.t = "garbage" -> [activeCaseId |-> Null, cases |-> <<>>]
    [] s.t = "null" -> fallback
    [] OTHER -> s.v

\* safeParse(s, fallback): JSON.parse, the fallback when it throws or yields null.
safeParse(s, fallback) ==
  CASE s.t = "garbage" -> fallback
    [] s.t = "null" -> fallback
    [] OTHER -> s.v

\* The useState initializer: saved ? safeParse(saved, base) : base.
LoadDoc(slot) == IF slot.t = "absent" THEN BaseDoc ELSE safeParse(slot, BaseDoc)

\* The render of the component: activeCase and filteredCases call
\* app.cases.find and app.cases.filter, which throw a TypeError when the
\* document has no cases property; app.ui is read through ?. only.
Renders(a) == "cases" \in DOMAIN a

\* ------------------------------------------------------ documents on disk

NowIso == "2024-01-01T00:00:00.000Z"

NowLocal == "2024-01-01T00:00"

SavedDefect(id, pct) ==
  [id |-> id, title |-> "Heating defect (room radiator not working)", room |-> "",
   startDate |-> "", status |-> "open", impactPercent |-> Num(pct), notes |-> "",
   createdAt |-> NowIso]

SavedAttachment ==
  [id |-> "a1", name |-> "photo.png", type |-> "image/png", size |-> MaxBytes,
   dataUrl |-> "data:photo.png"]

SavedIncident ==
  [id |-> "i1", dateTime |-> NowLocal, type |-> "Heating / utilities", summary |-> "",
   details |-> "", tags |-> <<>>, evidence |-> <<[id |-> "e1", label |-> "", url |-> ""]>>,
   attachments |-> <<SavedAttachment>>, urgency |-> "open", createdAt |-> NowIso]

SavedCase1 ==
  [id |-> "k1", title |-> "Case 1", address |-> "", landlordName |-> "",
   tenantName |-> "", rentWarm |-> "1000", createdAt |-> NowIso, notes |-> "",
   defects |-> <<SavedDefect("d1", 60), SavedDefect("d2", 70)>>,
   incidents |-> <<SavedIncident>>,
   documents |-> <<[id |-> "f1", name |-> "", url |-> "", notes |-> "", createdAt |-> NowIso]>>,
   letters |-> <<>>]

SavedCase2 ==
  [id |-> "k2", title |-> "Case 2", address |-> "", landlordName |-> "",
   tenantName |-> "", rentWarm |-> "", createdAt |-> NowIso, notes |-> "",
   defects |-> <<SavedDefect("d3", 0)>>, incidents |-> <<>>, documents |-> <<>>,
   letters |-> <<>>]

\* A document an earlier session of the application saved.
SavedDoc ==
  [activeCaseId |-> "k1", cases |-> <<SavedCase1, SavedCase2>>,
   ui |-> [tab |-> "snapshot", query |-> ""]]

\* Case k2 after its title was cleared.
UntitledCase2 == [SavedCase2 EXCEPT !.title = ""]

\* A document saved after the user selected case k2 and cleared its title.
UntitledDoc ==
  [activeCaseId |-> "k2", cases |-> <<SavedCase1, UntitledCase2>>,
   ui |-> [tab |-> "snapshot", query |-> ""]]

\* What the storage slot may hold when the component mounts.
InitialSlots == {Absent, Garbage, JsonNullText, Stringify(SavedDoc)}

\* ------------------------------------------------------------------ state

VARIABLES
  phase,    \* "boot" before the component mounts, "ready" after
  app,      \* the useState document
  stored,   \* the text under LS_KEY
  toast,    \* the toast message, Null when none
  reads,    \* attachment reads in flight, each with the closure it resumes in
  nextId,   \* uid() calls made so far
  ops,      \* handler calls made so far
  last,     \* the last handler that ran, its arguments and its save
  prev,     \* the document, the slot and the reads as that handler found them
  deleted,  \* the ids of the cases deleteCase has removed so far
  download  \* the last file downloadText wrote, the value it was made from, and
            \* the number of files written so far

vars == <<phase, app, stored, toast, reads, nextId, ops, last, prev, deleted, download>>

\* A uid() that returns the ids of the cases of the stored document again.
uidReused(n) == "k" \o ToString(n + 1)

\* uid(): a string no earlier call returned and no stored document holds.
uid(n) == "u" \o ToString(n + 1)

\* activeCase: app.cases.find((c) => c.id === app.activeCaseId) || null
NoCase == [isNull |-> TRUE]

activeCase(a) ==
  LET k == FindIdx(a.cases, Get(a, "activeCaseId"))
  IN IF k = 0 THEN NoCase ELSE a.cases[k]

\* What `last` records of a handler call.
\* c is the id of the case the handler's closure holds, a and b its further
\* arguments (b the id of the entity it targets or creates), text the text of
\* the file importJSON was given, save whether the persist effect ran and how
\* it ended, was whether the slot held the document before the call.
NoText == [t |-> "none"]

Op(name, c, a, b, patch) ==
  [op |-> name, c |-> c, a |-> a, b |-> b, patch |-> patch, text |-> NoText,
   save |-> "none",
   was |-> IF stored = Stringify(app) THEN "synced" ELSE "diverged"]

NoPatch == [none |-> TRUE]

\* No file has been downloaded.
NoDownload == [text |-> NoText, src |-> NoText, n |-> 0]

\* A persist effect that depends on [app.cases] only.
CommitCasesOnly(newApp, msg, op) ==
  /\ app' = newApp
  /\ prev' = [app |-> app, stored |-> stored, reads |-> reads]
  /\ deleted' = IF op.op = "deleteCase" THEN deleted \cup {op.c} ELSE deleted
  /\ download' = download
  /\ IF newApp.cases = app.cases
     THEN /\ stored' = stored
          /\ toast' = IF msg = Null THEN toast ELSE msg
          /\ last' = op
     ELSE IF StorageAccepts(Stringify(newApp))
     THEN /\ stored' = Stringify(newApp)
          /\ toast' = IF msg = Null THEN toast ELSE msg
          /\ last' = [op EXCEPT !.save = "ok"]
     ELSE /\ stored' = stored
          /\ toast' = "Storage is full. Export and delete large attachments."
          /\ last' = [op EXCEPT !.save = "rejected"]

\* A persist effect that puts the previous document back when the write fails.
CommitRollback(newApp, msg, op) ==
  /\ deleted' = IF op.op = "deleteCase" THEN deleted \cup {op.c} ELSE deleted
  /\ download' = download
  /\ IF StorageAccepts(Stringify(newApp))
     THEN /\ app' = newApp
          /\ prev' = [app |-> app, stored |-> stored, reads |-> reads]
          /\ stored' = Stringify(newApp)
          /\ toast' = IF msg = Null THEN toast ELSE msg
          /\ last' = [op EXCEPT !.save = "ok"]
     ELSE /\ app' = app
          /\ prev' = [app |-> app, stored |-> stored, reads |-> reads]
          /\ stored' = stored
          /\ toast' = "Storage is full. Export and delete large attachments."
          /\ last' = [op EXCEPT !.save = "rejected"]

\* The persist effect, which runs after every render that follows a setApp:
\* try { localStorage.setItem(LS_KEY, JSON.stringify(app)) } catch { notify(...) }.
\* msg is what the handler itself passed to notify (Null: it did not call it).
Commit(newApp, msg, op) ==
  /\ app' = newApp
  /\ prev' = [app |-> app, stored |-> stored, reads |-> reads]
  \* the history of deletions; no handler that calls setApp writes a file
  /\ deleted' = IF op.op = "deleteCase" THEN deleted \cup {op.c} ELSE deleted
  /\ download' = download
  /\ IF StorageAccepts(Stringify(newApp))
     THEN /\ stored' = Stringify(newApp)
          /\ toast' = IF msg = Null THEN toast ELSE msg
          /\ last' = [op EXCEPT !.save = "ok"]
     ELSE /\ stored' = stored
          /\ toast' = "Storage is full. Export and delete large attachments."
          /\ last' = [op EXCEPT !.save = "rejected"]

\* A handler that returns without calling setApp: no render, no effect.
NoCommit(msg, op) ==
  /\ app' = app
  /\ prev' = [app |-> app, stored |-> stored, reads |-> reads]
  /\ UNCHANGED <<deleted, download>>
  /\ stored' = stored
  /\ toast' = IF msg = Null THEN toast ELSE msg
  /\ last' = op

\* A user event reaches a handler of the mounted component.
UserOp ==
  /\ phase = "ready"
  /\ ops < MaxOps
  /\ ops' = ops + 1
  /\ phase' = phase

\* The state before the first render, the slot holding one of slots; a run
\* whose ops starts at -n has n operations more.
InitFrom(slots, n) ==
  /\ phase = "boot"
  /\ app = BaseDoc
  /\ stored \in slots
  /\ toast = Null
  /\ reads = <<>>
  /\ nextId = 0
  /\ ops = 0 - n
  /\ last = [op |-> "init", c |-> Null, a |-> Null, b |-> Null, patch |-> NoPatch,
            text |-> NoText, save |-> "none", was |-> "synced"]
  /\ prev = [app |-> app, stored |-> stored, reads |-> reads]
  /\ deleted = {}
  /\ download = NoDownload

InitWith(slots) == InitFrom(slots, 0)

Init == InitWith(InitialSlots)

\* The component mounts: the useState initializer loads the slot, the first
\* render follows and the persist effect saves what was loaded.
\* When the loaded value has no cases array, app.cases.find throws in the
\* first render: React unmounts the component, nothing is shown, no effect
\* runs and no state is left to act on.
Mount ==
  /\ phase = "boot"
  /\ UNCHANGED <<reads, nextId, ops>>
  /\ IF Renders(LoadDoc(stored))
     THEN /\ phase' = "ready"
          /\ Commit(LoadDoc(stored), Null, Op("mount", Null, stored.t, Null, NoPatch))
     ELSE /\ phase' = "crashed"
          /\ prev' = [app |-> app, stored |-> stored, reads |-> reads]
          /\ last' = Op("mount", Null, stored.t, Null, NoPatch)
          /\ UNCHANGED <<app, stored, toast, deleted, download>>

\* ------------------------------------------------------------------ cases

NewCase(id, n) ==
  [id |-> id, title |-> "Case " \o ToString(n + 1), address |-> "", landlordName |-> "",
   tenantName |-> "", rentWarm |-> "", createdAt |-> NowIso, notes |-> "",
   defects |-> <<>>, incidents |-> <<>>, documents |-> <<>>, letters |-> <<>>]

createCase ==
  /\ UserOp
  /\ nextId < MaxIds
  /\ nextId' = nextId + 1
  /\ LET id == uid(nextId)
         c == NewCase(id, Len(app.cases))
     IN Commit(Merge(app, [activeCaseId |-> id, cases |-> Prepend(c, app.cases)]),
               "New case created", Op("createCase", id, Null, Null, NoPatch))
  /\ UNCHANGED reads

\* An updater that spreads the patch over every case.
PatchCaseAll(a, ac, patch) ==
  LET F(c) == Merge(c, patch)
  IN Merge(a, [cases |-> [n \in 1..Len(a.cases) |-> F(a.cases[n])]])

\* The setApp of updateActiveCase, in the closure whose activeCase is ac:
\* a.cases.map((c) => (c.id === activeCase.id ? { ...c, ...patch } : c)).
PatchCase(a, ac, patch) ==
  LET F(c) == IF c.id = ac.id THEN Merge(c, patch) ELSE c
  IN Merge(a, [cases |-> [n \in 1..Len(a.cases) |-> F(a.cases[n])]])

\* updateActiveCase(patch) called in the closure whose activeCase is ac.
updateActiveCase(ac, patch, msg, op) ==
  IF ac = NoCase
  THEN NoCommit(msg, op)
  ELSE Commit(PatchCase(app, ac, patch), msg, op)

\* The sidebar button of a case: setApp((a) => ({ ...a, activeCaseId: c.id, ui: ... })).
selectCase(id) ==
  /\ UserOp
  /\ id \in IdSet(app.cases)
  /\ LET ui == IF "ui" \in DOMAIN app THEN app.ui ELSE <<>>
         tab == IF "tab" \in DOMAIN ui /\ ui.tab # "" THEN ui.tab ELSE "snapshot"
     IN Commit(Merge(app, [activeCaseId |-> id, ui |-> Merge(ui, [tab |-> tab])]),
               Null, Op("selectCase", id, Null, Null, NoPatch))
  /\ UNCHANGED <<reads, nextId>>

\* The search box and the tab buttons: setApp((a) => ({ ...a, ui: { ...(a.ui || {}), ... } })).
setUi(patch) ==
  /\ UserOp
  /\ "tab" \in DOMAIN patch => activeCase(app) # NoCase
  /\ LET ui == IF "ui" \in DOMAIN app THEN app.ui ELSE <<>>
     IN Commit(Merge(app, [ui |-> Merge(ui, patch)]), Null, Op("setUi", Null, Null, Null, patch))
  /\ UNCHANGED <<reads, nextId>>

UiInputs == {[query |-> "flat"], [tab |-> "letters"]}

\* The case form: updateActiveCase({ title: e.target.value }) and its siblings.
editCase(patch) ==
  /\ UserOp
  /\ activeCase(app) # NoCase
  /\ updateActiveCase(activeCase(app), patch, Null,
                      Op("editCase", activeCase(app).id, Null, Null, patch))
  /\ UNCHANGED <<reads, nextId>>

CaseInputs == {[title |-> ""], [landlordName |-> "Mr. L"]}

\* A deleteCase that leaves the tab as it is.
deleteCaseKeepsTab(ok) ==
  /\ UserOp
  /\ LET ac == activeCase(app)
         o == Op("deleteCase", IF ac = NoCase THEN Null ELSE ac.id, Null, Null, [ok |-> ok])
     IN IF ac = NoCase \/ ~ok
        THEN NoCommit(Null, o)
        ELSE LET Keep(c) == c.id # ac.id
                 remaining == SelectSeq(app.cases, Keep)
             IN Commit(Merge(app, [cases |-> remaining,
                                   activeCaseId |-> IF remaining = <<>> THEN Null
                                                    ELSE remaining[1].id]),
                       "Case deleted", o)
  /\ UNCHANGED <<reads, nextId>>

\* A deleteCase that leaves activeCaseId as it is.
deleteCaseKeepsActive(ok) ==
  /\ UserOp
  /\ LET ac == activeCase(app)
         o == Op("deleteCase", IF ac = NoCase THEN Null ELSE ac.id, Null, Null, [ok |-> ok])
     IN IF ac = NoCase \/ ~ok
        THEN NoCommit(Null, o)
        ELSE LET Keep(c) == c.id # ac.id
                 ui == IF "ui" \in DOMAIN app THEN app.ui ELSE <<>>
             IN Commit(Merge(app, [cases |-> SelectSeq(app.cases, Keep),
                                   ui |-> Merge(ui, [tab |-> "snapshot"])]),
                       "Case deleted", o)
  /\ UNCHANGED <<reads, nextId>>

deleteCase(ok) ==
  /\ UserOp
  /\ LET ac == activeCase(app)
         o == Op("deleteCase", IF ac = NoCase THEN Null ELSE ac.id, Null, Null, [ok |-> ok])
     IN IF ac = NoCase \/ ~ok
        THEN NoCommit(Null, o)
        ELSE LET Keep(c) == c.id # ac.id
                 remaining == SelectSeq(app.cases, Keep)
                 ui == IF "ui" \in DOMAIN app THEN app.ui ELSE <<>>
             IN Commit(Merge(app, [cases |-> remaining,
                                   activeCaseId |-> IF remaining = <<>> THEN Null
                                                    ELSE remaining[1].id,
                                   ui |-> Merge(ui, [tab |-> "snapshot"])]),
                       "Case deleted", o)
  /\ UNCHANGED <<reads, nextId>>

\* ------------------------------------------------- collections of a case

\* A patch that inserts the entity when no entity carries the id.
PatchEntityUpsert(arr, id, patch) ==
  LET F(d) == IF d.id = id THEN Merge(d, patch) ELSE d
  IN IF id \in IdSet(arr) THEN [n \in 1..Len(arr) |-> F(arr[n])] ELSE Prepend(Merge([id |-> id], patch), arr)

\* arr.map((d) => (d.id === id ? { ...d, ...patch } : d))
PatchEntity(arr, id, patch) ==
  LET F(d) == IF d.id = id THEN Merge(d, patch) ELSE d
  IN [n \in 1..Len(arr) |-> F(arr[n])]

\* arr.filter((d) => d.id !== id)
RemoveEntity(arr, id) ==
  LET Keep(d) == d.id # id
  IN SelectSeq(arr, Keep)

\* An id that no entity carries: a call from a view that is out of date.
GhostId == "ghost"

TargetIds(arr) == IdSet(arr) \cup {GhostId}

\* The update and delete controls of an entity are rendered, and their
\* handlers called, only in the branch of the render that has an active case.
HasActiveCase == activeCase(app) # NoCase

NewDefect(id) ==
  [id |-> id, title |-> "Heating defect (room radiator not working)", room |-> "",
   startDate |-> "", status |-> "open", impactPercent |-> Num(0), notes |-> "",
   createdAt |-> NowIso]

addDefect ==
  /\ UserOp
  /\ LET ac == activeCase(app)
     IN IF ac = NoCase
        THEN /\ NoCommit(Null, Op("addDefect", Null, Null, Null, NoPatch))
             /\ nextId' = nextId
        ELSE /\ nextId < MaxIds
             /\ nextId' = nextId + 1
             /\ updateActiveCase(ac,
                  [defects |-> Prepend(NewDefect(uid(nextId)), ArrOr(ac, "defects"))],
                  "Defect added", Op("addDefect", ac.id, Null, uid(nextId), NoPatch))
  /\ UNCHANGED reads

\* updateDefect(id, patch) as a control of the defect form calls it; text is
\* what the user typed when the control is the Impact % field, Null otherwise.
updateDefectFrom(id, patch, text) ==
  /\ UserOp
  /\ HasActiveCase
  /\ LET ac == activeCase(app)
     IN updateActiveCase(ac, [defects |-> PatchEntity(ArrOr(ac, "defects"), id, patch)],
                         Null, Op("updateDefect", ac.id, text, id, patch))
  /\ UNCHANGED <<reads, nextId>>

updateDefect(id, patch) == updateDefectFrom(id, patch, Null)

\* The texts typed into the Impact % field.
ImpactTexts == {"", "60", "abc"}

\* The Impact % field:
\* onChange={(e) => updateDefect(d.id, { impactPercent: Number(e.target.value || 0) })}.
impactChange(id, text) ==
  updateDefectFrom(id, [impactPercent |-> NumberOfInput(text)], text)

\* What the other controls of the defect form pass to updateDefect.
DefectInputs == {[status |-> "resolved"], [title |-> ""]}

deleteDefect(id, ok) ==
  /\ UserOp
  /\ HasActiveCase
  /\ LET ac == activeCase(app)
         o == Op("deleteDefect", ac.id, Null, id, [ok |-> ok])
     IN IF ~ok
        THEN NoCommit(Null, o)
        ELSE updateActiveCase(ac, [defects |-> RemoveEntity(ArrOr(ac, "defects"), id)],
                              "Defect deleted", o)
  /\ UNCHANGED <<reads, nextId>>

NewIncident(id) ==
  [id |-> id, dateTime |-> NowLocal, type |-> "Heating / utilities", summary |-> "",
   details |-> "", tags |-> <<>>, evidence |-> <<>>, attachments |-> <<>>,
   urgency |-> "open", createdAt |-> NowIso]

addIncident ==
  /\ UserOp
  /\ LET ac == activeCase(app)
     IN IF ac = NoCase
        THEN /\ NoCommit(Null, Op("addIncident", Null, Null, Null, NoPatch))
             /\ nextId' = nextId
        ELSE /\ nextId < MaxIds
             /\ nextId' = nextId + 1
             /\ updateActiveCase(ac,
                  [incidents |-> Prepend(NewIncident(uid(nextId)), ArrOr(ac, "incidents"))],
                  "Incident added", Op("addIncident", ac.id, Null, uid(nextId), NoPatch))
  /\ UNCHANGED reads

\* updateIncident(id, patch) called in the closure whose activeCase is ac.
updateIncidentIn(ac, id, patch, msg, op) ==
  updateActiveCase(ac, [incidents |-> PatchEntity(ArrOr(ac, "incidents"), id, patch)],
                   msg, op)

updateIncident(id, patch) ==
  /\ UserOp
  /\ HasActiveCase
  /\ updateIncidentIn(activeCase(app), id, patch, Null,
                      Op("updateIncident", activeCase(app).id, Null, id, patch))
  /\ UNCHANGED <<reads, nextId>>

IncidentInputs == {[summary |-> "No heating"]}

deleteIncident(id, ok) ==
  /\ UserOp
  /\ HasActiveCase
  /\ LET ac == activeCase(app)
         o == Op("deleteIncident", ac.id, Null, id, [ok |-> ok])
     IN IF ~ok
        THEN NoCommit(Null, o)
        ELSE updateActiveCase(ac, [incidents |-> RemoveEntity(ArrOr(ac, "incidents"), id)],
                              "Incident deleted", o)
  /\ UNCHANGED <<reads, nextId>>

\* (activeCase.incidents || []).find((x) => x.id === incidentId), NoCase-like
\* NoIncident when there is none.
NoIncident == [isNull |-> TRUE]

findIncident(ac, incidentId) ==
  LET k == FindIdx(ArrOr(ac, "incidents"), incidentId)
  IN IF k = 0 THEN NoIncident ELSE ArrOr(ac, "incidents")[k]

addEvidenceLink(incidentId) ==
  /\ UserOp
  /\ HasActiveCase
  /\ LET ac == activeCase(app)
         i == findIncident(ac, incidentId)
     IN IF i = NoIncident
        THEN /\ NoCommit(Null, Op("addEvidenceLink", ac.id, incidentId, Null, NoPatch))
             /\ nextId' = nextId
        ELSE /\ nextId < MaxIds
             /\ nextId' = nextId + 1
             /\ updateIncidentIn(ac, incidentId,
                  [evidence |-> Prepend([id |-> uid(nextId), label |-> "", url |-> ""],
                                        ArrOr(i, "evidence"))],
                  Null, Op("addEvidenceLink", ac.id, incidentId, uid(nextId), NoPatch))
  /\ UNCHANGED reads

updateEvidenceLink(incidentId, evId, patch) ==
  /\ UserOp
  /\ HasActiveCase
  /\ LET ac == activeCase(app)
         i == findIncident(ac, incidentId)
         o == Op("updateEvidenceLink", ac.id, incidentId, evId, patch)
     IN IF i = NoIncident
        THEN NoCommit(Null, o)
        ELSE updateIncidentIn(ac, incidentId,
               [evidence |-> PatchEntity(ArrOr(i, "evidence"), evId, patch)], Null, o)
  /\ UNCHANGED <<reads, nextId>>

EvidenceInputs == {[label |-> "Photo of radiator"]}

deleteEvidenceLink(incidentId, evId) ==
  /\ UserOp
  /\ HasActiveCase
  /\ LET ac == activeCase(app)
         i == findIncident(ac, incidentId)
         o == Op("deleteEvidenceLink", ac.id, incidentId, evId, NoPatch)
     IN IF i = NoIncident
        THEN NoCommit(Null, o)
        ELSE updateIncidentIn(ac, incidentId,
               [evidence |-> RemoveEntity(ArrOr(i, "evidence"), evId)], Null, o)
  /\ UNCHANGED <<reads, nextId>>

\* ------------------------------------------------------------- attachments

NoFile == [isNull |-> TRUE]

\* The files a user may pick.
PickedFiles ==
  {[name |-> "scan.pdf", type |-> "application/pdf", size |-> MaxBytes],
   [name |-> "huge.mov", type |-> "video/quicktime", size |-> MaxBytes + 1],
   [name |-> "note.txt", type |-> "text/plain", size |-> 1024]}

\* A size check that also turns away a file of exactly the limit.
TooLargeInclusive(file) == file.size >= maxMB * 1024 * 1024

\* file.size > maxMB * 1024 * 1024
TooLarge(file) == file.size > maxMB * 1024 * 1024

\* addAttachment up to its await: the size check, then the FileReader starts.
\* The continuation resumes in the closure of this render, with its activeCase.
addAttachment(incidentId, file) ==
  /\ UserOp
  /\ HasActiveCase
  /\ LET o == Op("addAttachment", activeCase(app).id, incidentId, Null,
                 IF file = NoFile THEN NoPatch ELSE [size |-> file.size])
     IN IF file = NoFile
        THEN NoCommit(Null, o) /\ reads' = reads
        ELSE IF TooLarge(file)
        THEN /\ NoCommit("File too large for this prototype (>2MB).", o)
             /\ reads' = reads
        ELSE /\ Len(reads) < MaxReads
             /\ nextId + Len(reads) < MaxIds
             /\ NoCommit(Null, o)
             /\ reads' = Append(reads, [incidentId |-> incidentId, file |-> file,
                                        ac |-> activeCase(app)])
  /\ UNCHANGED nextId

DropRead(k) == [n \in 1..(Len(reads) - 1) |-> IF n < k THEN reads[n] ELSE reads[n + 1]]

\* r.onload: the promise resolves and addAttachment continues after its await.
attachmentLoaded(k) ==
  /\ phase = "ready"
  /\ k \in 1..Len(reads)
  /\ LET r == reads[k]
         i == findIncident(r.ac, r.incidentId)
         att == [id |-> uid(nextId), name |-> r.file.name, type |-> r.file.type,
                 size |-> r.file.size, dataUrl |-> "data:" \o r.file.name]
     IN IF i = NoIncident
        THEN /\ NoCommit(Null, Op("attachmentLoaded", r.ac.id, r.incidentId, Null, NoPatch))
             /\ nextId' = nextId
        ELSE /\ nextId' = nextId + 1
             /\ updateIncidentIn(r.ac, r.incidentId,
                  [attachments |-> Prepend(att, ArrOr(i, "attachments"))],
                  "Attachment added",
                  Op("attachmentLoaded", r.ac.id, r.incidentId, uid(nextId), NoPatch))
  /\ reads' = DropRead(k)
  /\ UNCHANGED <<phase, ops>>

\* r.onerror: the promise rejects and the rest of addAttachment never runs.
attachmentFailed(k) ==
  /\ phase = "ready"
  /\ k \in 1..Len(reads)
  /\ NoCommit(Null, Op("attachmentFailed", reads[k].ac.id, reads[k].incidentId, Null, NoPatch))
  /\ reads' = DropRead(k)
  /\ UNCHANGED <<phase, ops, nextId>>

deleteAttachment(incidentId, attId) ==
  /\ UserOp
  /\ HasActiveCase
  /\ LET ac == activeCase(app)
         i == findIncident(ac, incidentId)
         o == Op("deleteAttachment", ac.id, incidentId, attId, NoPatch)
     IN IF i = NoIncident
        THEN NoCommit(Null, o)
        ELSE updateIncidentIn(ac, incidentId,
               [attachments |-> RemoveEntity(ArrOr(i, "attachments"), attId)],
               "Attachment removed", o)
  /\ UNCHANGED <<reads, nextId>>

\* -------------------------------------------------------------- documents

addDocument ==
  /\ UserOp
  /\ LET ac == activeCase(app)
     IN IF ac = NoCase
        THEN /\ NoCommit(Null, Op("addDocument", Null, Null, Null, NoPatch))
             /\ nextId' = nextId
        ELSE /\ nextId < MaxIds
             /\ nextId' = nextId + 1
             /\ updateActiveCase(ac,
                  [documents |-> Prepend([id |-> uid(nextId), name |-> "", url |-> "",
                                          notes |-> "", createdAt |-> NowIso],
                                         ArrOr(ac, "documents"))],
                  "Document reference added", Op("addDocument", ac.id, Null, uid(nextId), NoPatch))
  /\ UNCHANGED reads

updateDocument(id, patch) ==
  /\ UserOp
  /\ HasActiveCase
  /\ LET ac == activeCase(app)
     IN updateActiveCase(ac, [documents |-> PatchEntity(ArrOr(ac, "documents"), id, patch)],
                         Null, Op("updateDocument", ac.id, Null, id, patch))
  /\ UNCHANGED <<reads, nextId>>

DocumentInputs == {[name |-> "Lease"]}

deleteDocument(id, ok) ==
  /\ UserOp
  /\ HasActiveCase
  /\ LET ac == activeCase(app)
         o == Op("deleteDocument", ac.id, Null, id, [ok |-> ok])
     IN IF ~ok
        THEN NoCommit(Null, o)
        ELSE updateActiveCase(ac, [documents |-> RemoveEntity(ArrOr(ac, "documents"), id)],
                              "Document removed", o)
  /\ UNCHANGED <<reads, nextId>>

\* ---------------------------------------------------------------- letters

\* `${x}` of a string property: the string, "undefined" when it is missing.
\* (x || alt) of a string property: alt when it is missing, null or empty.
StrOr(o, k, alt) ==
  IF k \in DOMAIN o /\ o[k] # "" /\ o[k] # Null THEN o[k] ELSE alt

\* Number(x) || 0 of a number position: NaN, null and a missing value give 0.
NumOrZero(o, k) == IF k \in DOMAIN o /\ o[k].t = "num" THEN o[k].v ELSE 0

\* Number(text) || 0 for the texts of the warm rent field, in cents; a text
\* that is not numeric gives NaN and so 0.
NumberOfText(text) ==
  CASE text = "" -> 0
    [] text = "1000" -> 100000
    [] text = "850" -> 85000
    [] text = "999.99" -> 99999
    [] text = "-500" -> -50000
    [] OTHER -> 0

\* A template literal: its literal chunks and its substitutions, in order.
RECURSIVE Concat(_)
Concat(parts) == IF parts = <<>> THEN "" ELSE Head(parts) \o Concat(Tail(parts))

RECURSIVE JoinLines(_)
JoinLines(ls) ==
  IF ls = <<>> THEN ""
  ELSE IF Len(ls) = 1 THEN ls[1]
  ELSE ls[1] \o "\n" \o JoinLines(Tail(ls))

\* A filter that keeps every defect.
AllDefects(defects) == defects

\* defects.filter((d) => d.status === "open")
OpenDefects(defects) ==
  LET IsOpen(d) == Get(d, "status") = "open"
  IN SelectSeq(defects, IsOpen)

\* `${i + 1}. ${d.title}${d.room ? ` (Room: ${d.room})` : ""} - since ${d.startDate || "[date]"}`
\* Parts 1, 3, 4 and 6 are the substitutions.
DefectLineParts(d, n) ==
  <<ToString(n), ". ", Get(d, "title"),
    IF StrOr(d, "room", "") # "" THEN " (Room: " \o d.room \o ")" ELSE "",
    " - since ", StrOr(d, "startDate", "[date]")>>

DefectLine(d, n) == Concat(DefectLineParts(d, n))

\* The same with ` - proposed reduction: ${d.impactPercent || 0}%`; part 8 is
\* the substitution.
ReductionLineParts(d, n) ==
  DefectLineParts(d, n)
    \o <<" - proposed reduction: ", ToString(NumOrZero(d, "impactPercent")), "%">>

ReductionLine(d, n) == Concat(ReductionLineParts(d, n))

\* openDefects.map(...) of the two templates, before the join.
RepairLines(defects) ==
  LET open == OpenDefects(defects)
  IN [n \in 1..Len(open) |-> DefectLineParts(open[n], n)]

ReductionLines(defects) ==
  LET open == OpenDefects(defects)
  IN [n \in 1..Len(open) |-> ReductionLineParts(open[n], n)]

\* A number of cents that is not negative, printed the way JavaScript prints
\* the number of euros.
EuroAbs(cents) ==
  LET whole == cents \div 100
      frac == cents % 100
  IN ToString(whole)
       \o (IF frac = 0 THEN ""
           ELSE IF frac % 10 = 0 THEN "." \o ToString(frac \div 10)
           ELSE IF frac < 10 THEN ".0" \o ToString(frac)
           ELSE "." \o ToString(frac))

\* `${warm}` and `${reduced}` for an amount held in cents.
EuroText(cents) == IF cents < 0 THEN "-" \o EuroAbs(0 - cents) ELSE EuroAbs(cents)

Min(x, y) == IF x <= y THEN x ELSE y

\* The two language sections of repair_request: literal chunks at the odd
\* positions, substitutions at the even ones (address, landlord, defect
\* list, tenant).
RepairParts(c, defects) ==
  LET lines == RepairLines(defects)
      defectLines == JoinLines([n \in 1..Len(lines) |-> Concat(lines[n])])
  IN [en |-> <<"Subject: Request to remedy defects - ", StrOr(c, "address", "[address]"),
               "\n\nDear ", StrOr(c, "landlordName", "[Landlord/Representative]"),
               ",\n\nI am requesting that the following defects in my rented accommodation be remedied without delay:\n\n",
               IF defectLines # "" THEN defectLines ELSE "[List defects here]",
               "\n\nPlease confirm a repair appointment date and the responsible company/technician.\n\nKind regards,\n",
               StrOr(c, "tenantName", "[Your name]")>>,
      de |-> <<"Betreff: Aufforderung zur Maengelbeseitigung - ", StrOr(c, "address", "[Adresse]"),
               "\n\nSehr geehrte/r ", StrOr(c, "landlordName", "[Vermieter/Bevollmaechtigte/r]"),
               ",\n\nhiermit fordere ich Sie auf, die folgenden Maengel in meinem Mietobjekt unverzueglich zu beseitigen:\n\n",
               IF defectLines # "" THEN defectLines ELSE "[Maengel hier auflisten]",
               "\n\nBitte bestaetigen Sie mir einen Reparaturtermin sowie die zustaendige Firma/den Techniker.\n\nMit freundlichen Gruessen\n",
               StrOr(c, "tenantName", "[Ihr Name]")>>]

\* LETTER_TEMPLATES.repair_request.build
BuildRepairRequest(c, defects) ==
  LET p == RepairParts(c, defects)
  IN [subject |-> "Repair request - " \o StrOr(c, "address", "[address]"),
      body |-> Concat(p.en) \o "\n\n- - -\n\n" \o Concat(p.de)]

\* A total that stops at 100.
ReductionTotalCapped(defects) ==
  LET open == OpenDefects(defects)
  IN Min(SumSeq([n \in 1..Len(open) |-> NumOrZero(open[n], "impactPercent")]), 100)

\* total of LETTER_TEMPLATES.rent_reduction_notice.build
ReductionTotal(defects) ==
  LET open == OpenDefects(defects)
  IN SumSeq([n \in 1..Len(open) |-> NumOrZero(open[n], "impactPercent")])

\* reduced of the same, in cents, for warm in cents:
\* warm ? Math.round((warm * (1 - Math.min(total, 100) / 100)) * 100) / 100 : 0.
\* Math.round rounds a half upwards.
ReducedCents(warm, total) ==
  IF warm # 0 THEN (warm * (100 - Min(total, 100)) + 50) \div 100 ELSE 0

\* The two language sections of rent_reduction_notice: literal chunks at the
\* odd positions, substitutions at the even ones (address, landlord, defect
\* list, total, warm rent, reduced payment, tenant).
RentReductionParts(c, defects) ==
  LET lines == ReductionLines(defects)
      total == ReductionTotal(defects)
      defectLines == JoinLines([n \in 1..Len(lines) |-> Concat(lines[n])])
      warm == NumberOfText(StrOr(c, "rentWarm", ""))
      reduced == ReducedCents(warm, total)
  IN [en |-> <<"Subject: Notice of rent reduction due to defects - ", StrOr(c, "address", "[address]"),
               "\n\nDear ", StrOr(c, "landlordName", "[Landlord/Representative]"),
               ",\n\nDue to the ongoing defects listed below, I am exercising my right to a rent reduction for the period in which the defects persist.\n\nDefects:\n",
               IF defectLines # "" THEN defectLines ELSE "[List defects here]",
               "\n\nProposed total reduction: ", ToString(total),
               "%\nWarm rent (current): ", IF warm # 0 THEN "EUR " \o EuroText(warm) ELSE "[amount]",
               "\nReduced payment (proposal): ", IF warm # 0 THEN "EUR " \o EuroText(reduced) ELSE "[amount]",
               "\n\nI request immediate remedy of the defects. Please confirm next steps and a repair timeline in writing.\n\nKind regards,\n",
               StrOr(c, "tenantName", "[Your name]")>>,
      de |-> <<"Betreff: Anzeige der Mietminderung wegen Maengeln - ", StrOr(c, "address", "[Adresse]"),
               "\n\nSehr geehrte/r ", StrOr(c, "landlordName", "[Vermieter/Bevollmaechtigte/r]"),
               ",\n\naufgrund der nachfolgend aufgefuehrten, fortbestehenden Maengel mache ich eine Mietminderung fuer den Zeitraum geltend, in dem die Maengel bestehen.\n\nMaengel:\n",
               IF defectLines # "" THEN defectLines ELSE "[Maengel hier auflisten]",
               "\n\nVorgeschlagene Gesamtsumme der Mietminderung: ", ToString(total),
               "%\nWarmmiete (aktuell): ", IF warm # 0 THEN "EUR " \o EuroText(warm) ELSE "[Betrag]",
               "\nZahlbetrag (Vorschlag): ", IF warm # 0 THEN "EUR " \o EuroText(reduced) ELSE "[Betrag]",
               "\n\nIch bitte um umgehende Maengelbeseitigung. Bitte bestaetigen Sie das weitere Vorgehen sowie einen Reparaturzeitplan schriftlich.\n\nMit freundlichen Gruessen\n",
               StrOr(c, "tenantName", "[Ihr Name]")>>]

\* LETTER_TEMPLATES.rent_reduction_notice.build
BuildRentReduction(c, defects) ==
  LET p == RentReductionParts(c, defects)
  IN [subject |-> "Rent reduction notice - " \o StrOr(c, "address", "[address]"),
      body |-> Concat(p.en) \o "\n\n- - -\n\n" \o Concat(p.de)]

\* The keys of LETTER_TEMPLATES and the name of each template.
TemplateKeys == {"repair_request", "rent_reduction_notice"}

TemplateName(key) ==
  IF key = "repair_request"
  THEN "Repair Request (German/English - rough draft)"
  ELSE "Rent Reduction Notice (German/English - rough draft)"

TemplateBuild(key, c, defects) ==
  IF key = "repair_request" THEN BuildRepairRequest(c, defects)
  ELSE BuildRentReduction(c, defects)

\* The sections and the defect lines of LETTER_TEMPLATES[key].build.
TemplateParts(key, c, defects) ==
  IF key = "repair_request" THEN RepairParts(c, defects)
  ELSE RentReductionParts(c, defects)

TemplateLines(key, defects) ==
  IF key = "repair_request" THEN RepairLines(defects) ELSE ReductionLines(defects)

\* A generateLetter that puts the new letter in the place of the drafts of
\* the same template.
ReplaceLetter(letter, letters) ==
  LET Keep(l) == l.type # letter.type
  IN Prepend(letter, SelectSeq(letters, Keep))

\* [letter, ...(activeCase.letters || [])]
AddLetter(letter, letters) == Prepend(letter, letters)

generateLetter(templateKey) ==
  /\ UserOp
  /\ LET ac == activeCase(app)
         o == Op("generateLetter", IF ac = NoCase THEN Null ELSE ac.id, templateKey, Null, NoPatch)
     IN IF ac = NoCase \/ templateKey \notin TemplateKeys
        THEN /\ NoCommit(Null, o)
             /\ nextId' = nextId
        ELSE /\ nextId < MaxIds
             /\ nextId' = nextId + 1
             /\ LET built == TemplateBuild(templateKey, ac, ArrOr(ac, "defects"))
                    letter == [id |-> uid(nextId), type |-> templateKey,
                               title |-> TemplateName(templateKey),
                               subject |-> built.subject, body |-> built.body,
                               createdAt |-> NowIso]
                IN updateActiveCase(ac, [letters |-> AddLetter(letter, ArrOr(ac, "letters"))],
                                    "Letter generated", [o EXCEPT !.b = uid(nextId)])
  /\ UNCHANGED reads

updateLetter(id, patch) ==
  /\ UserOp
  /\ HasActiveCase
  /\ LET ac == activeCase(app)
     IN updateActiveCase(ac, [letters |-> PatchEntity(ArrOr(ac, "letters"), id, patch)],
                         Null, Op("updateLetter", ac.id, Null, id, patch))
  /\ UNCHANGED <<reads, nextId>>

LetterInputs == {[subject |-> "Heating"]}

deleteLetter(id, ok) ==
  /\ UserOp
  /\ HasActiveCase
  /\ LET ac == activeCase(app)
         o == Op("deleteLetter", ac.id, Null, id, [ok |-> ok])
     IN IF ~ok
        THEN NoCommit(Null, o)
        ELSE updateActiveCase(ac, [letters |-> RemoveEntity(ArrOr(ac, "letters"), id)],
                              "Letter deleted", o)
  /\ UNCHANGED <<reads, nextId>>

\* ----------------------------------------------------------------- import

\* parsed.cases && Array.isArray(parsed.cases): cases holds an array when present.
IsFullDoc(parsed) == "cases" \in DOMAIN parsed

\* A single-case test that is content with an id and a title.
IsSingleCaseLoose(parsed) ==
  /\ StrOr(parsed, "id", "") # ""
  /\ StrOr(parsed, "title", "") # ""

\* parsed.id && parsed.title && parsed.defects && parsed.incidents: the two
\* strings are truthy when not empty, the two arrays whenever present.
IsSingleCase(parsed) ==
  /\ StrOr(parsed, "id", "") # ""
  /\ StrOr(parsed, "title", "") # ""
  /\ "defects" \in DOMAIN parsed
  /\ "incidents" \in DOMAIN parsed

\* The two shapes tried in the other order.
ClassifySingleFirst(parsed) ==
  IF IsSingleCase(parsed) THEN "single"
  ELSE IF IsFullDoc(parsed) THEN "full"
  ELSE "unsupported"

\* The order in which importJSON tries the two shapes.
ClassifyImport(parsed) ==
  IF IsFullDoc(parsed) THEN "full"
  ELSE IF IsSingleCase(parsed) THEN "single"
  ELSE "unsupported"

\* A single-case import that keeps the case it replaces.
UpsertCaseKeepsOld(a, parsed) ==
  Merge(a, [cases |-> Prepend(parsed, a.cases), activeCaseId |-> parsed.id])

\* The setApp of the single-case branch.
UpsertCase(a, parsed) ==
  LET Keep(c) == c.id # parsed.id
  IN Merge(a, [cases |-> Prepend(parsed, SelectSeq(a.cases, Keep)),
               activeCaseId |-> parsed.id])

\* A case exported by another installation.
ForeignCase ==
  [id |-> "x1", title |-> "Flat 3", address |-> "Main St 1", landlordName |-> "",
   tenantName |-> "", rentWarm |-> "850", createdAt |-> NowIso, notes |-> "",
   defects |-> <<SavedDefect("d9", 20)>>, incidents |-> <<>>, documents |-> <<>>,
   letters |-> <<>>]

\* An export of case k1 taken before its second defect and its incident existed.
OlderCase1 ==
  [SavedCase1 EXCEPT !.defects = <<SavedDefect("d1", 60)>>, !.incidents = <<>>,
                     !.address = "Old St 5"]

\* A whole-document export of another installation.
ForeignDoc ==
  [activeCaseId |-> "x1", cases |-> <<ForeignCase>>,
   ui |-> [tab |-> "export", query |-> ""]]

\* A payload with a cases array and the fields of a single case.
HybridPayload ==
  [cases |-> <<ForeignCase>>, id |-> "x2", title |-> "Hybrid", defects |-> <<>>,
   incidents |-> <<>>]

\* A case written by an older version: no documents, no letters, and an
\* incident without tags, evidence or attachments.
LegacyCase ==
  [id |-> "x4", title |-> "Old flat", address |-> "", landlordName |-> "",
   tenantName |-> "", rentWarm |-> "", createdAt |-> NowIso, notes |-> "",
   defects |-> <<>>,
   incidents |-> <<[id |-> "i4", dateTime |-> NowLocal, type |-> "", summary |-> "",
                    details |-> "", urgency |-> "open", createdAt |-> NowIso]>>]

\* A whole-document export that is longer than the storage slot can hold.
BulkyDoc ==
  [activeCaseId |-> "k1",
   cases |-> <<[SavedCase1 EXCEPT !.incidents =
                  <<[SavedIncident EXCEPT !.attachments =
                       <<SavedAttachment, [SavedAttachment EXCEPT !.id = "a2"]>>]>>]>>,
   ui |-> [tab |-> "snapshot", query |-> ""]]

\* downloadText(name, JSON.stringify(activeCase, null, 2))
exportActiveCaseJSON ==
  /\ phase = "ready"
  /\ download.n < MaxExports
  /\ LET ac == activeCase(app)
     IN /\ download' = IF ac = NoCase THEN download
                       ELSE [text |-> JsonText(JsonCase(ac)), src |-> ac,
                             n |-> download.n + 1]
        /\ last' = Op("exportActiveCaseJSON", IF ac = NoCase THEN Null ELSE ac.id,
                      Null, Null, NoPatch)
  /\ prev' = [app |-> app, stored |-> stored, reads |-> reads]
  /\ UNCHANGED <<phase, app, stored, toast, reads, nextId, ops, deleted>>

\* downloadText("landlord-casefile-all.json", JSON.stringify(app, null, 2))
exportAllJSON ==
  /\ phase = "ready"
  /\ download.n < MaxExports
  /\ download' = [text |-> Stringify(app), src |-> app, n |-> download.n + 1]
  /\ last' = Op("exportAllJSON", Null, Null, Null, NoPatch)
  /\ prev' = [app |-> app, stored |-> stored, reads |-> reads]
  /\ UNCHANGED <<phase, app, stored, toast, reads, nextId, ops, deleted>>

\* The file the user saved from the last export, if any.
DownloadedFiles == IF download.text = NoText THEN {} ELSE {download.text}

\* The texts of the files a user may pick for import.
ImportFiles ==
  {Garbage, JsonNullText, JsonText([version |-> "1"]), JsonText([id |-> "x3", title |-> "T"]),
   JsonText(ForeignCase), JsonText(OlderCase1), JsonText(UntitledCase2),
   JsonText(LegacyCase), JsonText(ForeignDoc), JsonText(HybridPayload), JsonText(BulkyDoc)}

\* importJSON(file): the document is touched only after the await of
\* file.text(), and only through setApp, so the handler is one step.
importJSON(text) ==
  /\ UserOp
  /\ LET parsed == safeParse(text, Null)
         o == [Op("importJSON", Null, Null, Null, NoPatch) EXCEPT !.text = text]
     IN IF text.t # "obj"
        THEN NoCommit("Invalid JSON", o)
        ELSE IF ClassifyImport(parsed) = "full"
        THEN Commit(parsed, "Imported full app data", o)
        ELSE IF ClassifyImport(parsed) = "single"
        THEN Commit(UpsertCase(app, parsed), "Imported case into your app", o)
        ELSE NoCommit("JSON recognized, but format not supported", o)
  /\ UNCHANGED <<reads, nextId>>

wipeAll(ok) ==
  /\ UserOp
  /\ LET o == Op("wipeAll", Null, Null, Null, [ok |-> ok])
     IN IF ~ok
        THEN NoCommit(Null, o)
        ELSE Commit([activeCaseId |-> Null, cases |-> <<>>,
                     ui |-> [tab |-> "snapshot", query |-> ""]],
                    "All data wiped", o)
  /\ UNCHANGED <<reads, nextId>>

\* The timer of notify: setTimeout(() => setToast(null), 2200).
toastTimeout ==
  /\ phase = "ready"
  /\ toast # Null
  /\ toast' = Null
  /\ last' = Op("toastTimeout", Null, Null, Null, NoPatch)
  /\ prev' = [app |-> app, stored |-> stored, reads |-> reads]
  /\ UNCHANGED <<phase, app, stored, reads, nextId, ops, deleted, download>>

\* The render: the toast element is part of the branch for an active case;
\* the branch for no active case (EmptyState) has none.
ToastShown == toast # Null /\ HasActiveCase

\* The incidents and nested entities a control of the current render names.
IncidentTargets == TargetIds(ArrOr(activeCase(app), "incidents"))

NestedTargets(incidentId, k) ==
  TargetIds(ArrOr(findIncident(activeCase(app), incidentId), k))

\* The mount and every handler but import and export.
Handlers ==
  \/ Mount
  \/ createCase
  \/ \E id \in IdSet(app.cases) : selectCase(id)
  \/ \E p \in UiInputs : setUi(p)
  \/ \E p \in CaseInputs : editCase(p)
  \/ \E ok \in BOOLEAN : deleteCase(ok)
  \/ addDefect
  \/ \E id \in TargetIds(ArrOr(activeCase(app), "defects")), p \in DefectInputs :
       updateDefect(id, p)
  \/ \E id \in TargetIds(ArrOr(activeCase(app), "defects")), t \in ImpactTexts :
       impactChange(id, t)
  \/ \E id \in TargetIds(ArrOr(activeCase(app), "defects")), ok \in BOOLEAN :
       deleteDefect(id, ok)
  \/ addIncident
  \/ \E id \in IncidentTargets, p \in IncidentInputs : updateIncident(id, p)
  \/ \E id \in IncidentTargets, ok \in BOOLEAN : deleteIncident(id, ok)
  \/ \E i \in IncidentTargets : addEvidenceLink(i)
  \/ \E i \in IncidentTargets : \E e \in NestedTargets(i, "evidence"), p \in EvidenceInputs :
       updateEvidenceLink(i, e, p)
  \/ \E i \in IncidentTargets : \E e \in NestedTargets(i, "evidence") :
       deleteEvidenceLink(i, e)
  \/ \E i \in IncidentTargets, f \in PickedFiles \cup {NoFile} : addAttachment(i, f)
  \/ \E k \in 1..Len(reads) : attachmentLoaded(k)
  \/ \E k \in 1..Len(reads) : attachmentFailed(k)
  \/ \E i \in IncidentTargets : \E a \in NestedTargets(i, "attachments") :
       deleteAttachment(i, a)
  \/ addDocument
  \/ \E id \in TargetIds(ArrOr(activeCase(app), "documents")), p \in DocumentInputs :
       updateDocument(id, p)
  \/ \E id \in TargetIds(ArrOr(activeCase(app), "documents")), ok \in BOOLEAN :
       deleteDocument(id, ok)
  \/ \E key \in TemplateKeys \cup {"unknown"} : generateLetter(key)
  \/ \E id \in TargetIds(ArrOr(activeCase(app), "letters")), p \in LetterInputs :
       updateLetter(id, p)
  \/ \E id \in TargetIds(ArrOr(activeCase(app), "letters")), ok \in BOOLEAN :
       deleteLetter(id, ok)
  \/ \E ok \in BOOLEAN : wipeAll(ok)
  \/ toastTimeout

\* The component with its import input.
Next ==
  \/ Handlers
  \/ \E f \in ImportFiles \cup DownloadedFiles : importJSON(f)

\* The component without its export buttons, which leave its state alone.
Spec == Init /\ [][Next]_vars

\* ------------------------------------------------------ export and import

\* The component with its export buttons, mounted on the slots above or on
\* the document with the untitled case.
RoundTripInit == InitWith(InitialSlots \cup {Stringify(UntitledDoc)})

RoundTripNext ==
  \/ Next
  \/ exportActiveCaseJSON
  \/ exportAllJSON

RoundTripSpec == RoundTripInit /\ [][RoundTripNext]_vars

\* ------------------------------------------- from the empty document
\* The component started on an empty slot, with the export buttons, and with
\* an import input that is given single cases, files it rejects and the
\* files this run exported, but no whole document from elsewhere.
ExtraOps == 1

CaseFiles == {f \in ImportFiles : ~(f.t = "obj" /\ IsFullDoc(f.v))}

FreshInit == InitFrom({Absent}, ExtraOps)

FreshNext ==
  \/ Handlers
  \/ exportActiveCaseJSON
  \/ exportAllJSON
  \/ \E f \in CaseFiles \cup DownloadedFiles : importJSON(f)

FreshSpec == FreshInit /\ [][FreshNext]_vars

\* ----------------------------------------------------- documents of old
\* The component started on slots that hold parseable JSON of other shapes: a
\* document without ui whose only case has no documents and no letters and an
\* incident without evidence and attachments, and an object without cases.
LegacyDoc == [activeCaseId |-> "x4", cases |-> <<LegacyCase>>]

CaselessDoc == [activeCaseId |-> Null, ui |-> [tab |-> "snapshot", query |-> ""]]

LoadSlots == {Garbage, JsonNullText, Stringify(LegacyDoc), JsonText(CaselessDoc)}

LoadInit == InitWith(LoadSlots)

LoadSpec == LoadInit /\ [][Next]_vars

\* --------------------------------------------------- the letter templates

\* Defects as the defect form leaves them: title, room and start date are
\* free text, status comes from the select, impactPercent from the Impact %
\* field.
FormDefect(id, title, room, startDate, status, pct) ==
  [id |-> id, title |-> title, room |-> room, startDate |-> startDate,
   status |-> status, impactPercent |-> pct, notes |-> "", createdAt |-> NowIso]

Mould == FormDefect("d4", "Mould", "Bath", "2024-01-05", "open", Num(30))

Window == FormDefect("d5", "Window", "", "", "resolved", Num(50))

Boiler == FormDefect("d6", "Boiler", "Kitchen", "", "open", NumberOfInput("-50"))

\* A defect whose title was cleared and whose Impact % field got a text.
Untitled == FormDefect("d7", "", "", "", "open", NumberOfInput("abc"))

\* A defect of an imported case file that carries an id and a status only.
BareDefect == [id |-> "d8", status |-> "open"]

\* A defect of an imported case file that carries no status.
Unstated == [id |-> "d9", title |-> "Lift", impactPercent |-> Num(40)]

DefectLists ==
  {<<>>,
   <<SavedDefect("d1", 60), SavedDefect("d2", 70)>>,
   <<Mould, Window, SavedDefect("d2", 70)>>,
   <<Window, Unstated>>,
   <<Untitled, Mould>>,
   <<BareDefect>>,
   <<Boiler, Mould>>}

\* The texts of the warm rent field.
RentTexts == {"", "1000", "999.99", "-500"}

\* An imported case that has the four properties importJSON asks for and no
\* others.
BareCase == [id |-> "k1", title |-> "Case 1", defects |-> <<BareDefect>>, incidents |-> <<>>]

\* The cases the templates are applied to.
LetterCases ==
  {[id |-> "k1", title |-> "Case 1", address |-> a, landlordName |-> l,
    tenantName |-> t, rentWarm |-> w, createdAt |-> NowIso, notes |-> "",
    defects |-> ds, incidents |-> <<>>, documents |-> <<>>, letters |-> <<>>] :
     a \in {"", "Main St 1"}, l \in {"", "Mr. L"}, t \in {"", "Ms. T"},
     w \in RentTexts, ds \in DefectLists}
  \cup {BareCase}

\* The component with one of these cases as its document, slot in step.
LetterInit ==
  /\ phase = "ready"
  /\ \E c \in LetterCases :
       app = [activeCaseId |-> c.id, cases |-> <<c>>, ui |-> [tab |-> "letters", query |-> ""]]
  /\ stored = Stringify(app)
  /\ toast = Null
  /\ reads = <<>>
  /\ nextId = 0
  /\ ops = 0
  /\ last = [op |-> "init", c |-> Null, a |-> Null, b |-> Null, patch |-> NoPatch,
            text |-> NoText, save |-> "none", was |-> "synced"]
  /\ prev = [app |-> app, stored |-> stored, reads |-> reads]
  /\ deleted = {}
  /\ download = NoDownload

\* The buttons of the letters tab.
LetterNext == \E key \in TemplateKeys \cup {"unknown"} : generateLetter(key)

LetterSpec == LetterInit /\ [][LetterNext]_vars

\* ---------------------------------------------------- the RentIt variant
\* src/unnamed/part_000: one unit with its monthly cost rows, under its own
\* storage keys.  In this part of the module app is the pair of the
\* component's useState values (profile, state), stored the pair of the
\* texts under PROFILE_KEY and KEY, toast the message of the last alert and
\* reads the imports whose FileReader has not called back yet.  Amounts are
\* held in thousandths, so that a value with a third decimal can be written
\* and Math.round has something to round.

KEY == "toolstack.rentit.v1"

PROFILE_KEY == "toolstack.profile.v1"

\* isoMonth() and new Date().toISOString() of the one instant of a run.
isoMonth == "2024-01"

\* uid("c"): crypto.randomUUID(), a string no earlier call returned.
RentUid(n) == "c" \o ToString(n + 1)

\* A string on which Number() gives NaN, a string it reads as a number, and
\* the undefined a missing property reads as.
TextValue == [t |-> "str", v |-> 0]

NumericText(n) == [t |-> "numstr", v |-> n]

UndefinedValue == [t |-> "undefined", v |-> 0]

\* row[k]
Field(o, k) == IF k \in DOMAIN o THEN o[k] ELSE UndefinedValue

\* toNum(v): Number(v) when it is finite (a number, a numeric string, null
\* as 0), otherwise 0.
toNum(v) == IF v.t \in {"num", "numstr"} THEN v.v ELSE 0

\* round2(n): Math.round(n * 100) / 100, halves rounded up.
round2(n) == ((n + 5) \div 10) * 10

COST_KEYS ==
  <<"rent", "utilities", "electricity", "internet", "parking", "furniture", "other">>

\* The sum of the components of a row, each through toNum.
ComponentSum(row, keys) == SumSeq([n \in 1..Len(keys) |-> toNum(Field(row, keys[n]))])

\* A recalcCostRow that forgets the last component.
recalcCostRowSix(row) ==
  Merge(row, [total |-> Num(round2(ComponentSum(row, SubSeq(COST_KEYS, 1, 6))))])

\* recalcCostRow(row): { ...row, total }
recalcCostRow(row) == Merge(row, [total |-> Num(round2(ComponentSum(row, COST_KEYS)))])

\* The row literal of defaultState and addCostRow.
NewCostRow(id) ==
  [id |-> id, month |-> isoMonth, rent |-> Num(0), utilities |-> Num(0),
   electricity |-> Num(0), internet |-> Num(0), parking |-> Num(0),
   furniture |-> Num(0), other |-> Num(0), total |-> Num(0), paid |-> FALSE,
   note |-> ""]

DefaultUnit ==
  [label |-> "", address |-> "", landlordName |-> "", landlordEmail |-> "",
   landlordAddress |-> "", landlordPhone1 |-> "", landlordPhone2 |-> "",
   agentName |-> "", contractStart |-> "", contractType |-> "",
   rentWarm |-> Num(0), rentCold |-> Num(0), deposit |-> Num(0), notes |-> ""]

\* defaultState(), its uid call being call number n.
defaultState(n) ==
  [meta |-> [appId |-> "rentit", version |-> "v1", updatedAt |-> NowIso],
   settings |-> [currency |-> "EUR"],
   unit |-> DefaultUnit,
   costs |-> <<NewCostRow(RentUid(n))>>,
   issues |-> <<>>, incidents |-> <<>>, evidence |-> <<>>]

DefaultProfile == [org |-> "ToolStack", user |-> "", language |-> "EN", logo |-> ""]

\* safeParse(raw, null): the parsed value, null for no text, for text that
\* JSON.parse rejects and for the text null.
RentParsed(slot) == slot.t = "obj"

\* loadProfile()
loadProfile(slot) == IF RentParsed(slot) THEN slot.v ELSE DefaultProfile

\* loadState(): the stored object spread over defaultState(), its unit over
\* the default unit.  defaultState() is called once for the whole and once
\* more for its unit, so an object costs two uid calls.
loadState(slot, n) ==
  IF ~RentParsed(slot) THEN defaultState(n)
  ELSE LET loaded == slot.v
           unit == IF "unit" \in DOMAIN loaded THEN loaded.unit ELSE <<>>
           own == [landlordEmail |-> StrOr(unit, "landlordEmail", ""),
                   landlordAddress |-> StrOr(unit, "landlordAddress", ""),
                   landlordPhone1 |-> StrOr(unit, "landlordPhone1", ""),
                   landlordPhone2 |-> StrOr(unit, "landlordPhone2", "")]
       IN Merge(Merge(defaultState(n), loaded),
                [unit |-> Merge(Merge(defaultState(n + 1).unit, unit), own)])

loadStateUids(slot) == IF RentParsed(slot) THEN 2 ELSE 1

\* saveState(state) returns state with meta.updatedAt set; the text it writes
\* under KEY is JsonText of that.
saveState(state) ==
  LET meta == IF "meta" \in DOMAIN state THEN state.meta ELSE <<>>
  IN Merge(state, [meta |-> Merge(meta, [updatedAt |-> NowIso])])

\* The render of App reads state.settings.currency, which throws when the
\* state has no settings.
RentRenders(state) == "settings" \in DOMAIN state

\* ------------------------------------------------- RentIt: state, handlers

\* Renders of App that React may run before it commits one, and user
\* operations after the mount.
MaxRenders == 2

MaxRentOps == 2

SavedRow ==
  [NewCostRow("s1") EXCEPT !.rent = Num(700000), !.total = Num(700000)]

\* A state as saveState wrote it.
SavedRentState ==
  [defaultState(0) EXCEPT !.unit = [DefaultUnit EXCEPT !.label = "Flat 1"],
                          !.costs = <<SavedRow>>]

\* What an earlier version stored: a unit with some of its properties, no
\* costs, no settings, no meta.
OlderRentState ==
  [unit |-> [label |-> "Flat 1", landlordName |-> "Mr. L"], issues |-> <<>>]

RentSlots ==
  {[profile |-> Absent, state |-> s] :
     s \in {Absent, Garbage, JsonText(SavedRentState), JsonText(OlderRentState)}}

\* Rows as a file written by hand or by another program may hold them: a
\* numeric string, a string that is no number, components missing.
SparseRow ==
  [id |-> "s0", month |-> "2023-12", rent |-> NumericText(500000),
   utilities |-> TextValue, other |-> Num(5), total |-> Num(1)]

\* The files the import input may be given: text that is no JSON, an export
\* of this program, data with settings and sparse rows, data with unit and
\* costs only, data without costs, data without unit.
RentFiles ==
  {Garbage,
   JsonText([exportedAt |-> NowIso,
             profile |-> [DefaultProfile EXCEPT !.user = "Ana"],
             data |-> SavedRentState]),
   JsonText([data |-> [settings |-> [currency |-> "CHF"],
                       unit |-> [label |-> "Flat 2"],
                       costs |-> <<SparseRow, SavedRow>>]]),
   JsonText([data |-> [unit |-> [label |-> "Flat 2"], costs |-> <<SavedRow>>]]),
   JsonText([data |-> [settings |-> [currency |-> "CHF"],
                       unit |-> [label |-> "Flat 2"]]]),
   JsonText([data |-> [settings |-> [currency |-> "CHF"], costs |-> <<>>]])}

\* Number(text) for the text of a number input, in thousandths.
NumberOfMoney(text) ==
  CASE text = "" -> Num(0)
    [] text = "700" -> Num(700000)
    [] text = "0.005" -> Num(5)
    [] text = "19.994" -> Num(19994)
    [] OTHER -> NaN

MoneyTexts == {"", "0.005", "19.994"}

\* The patches the controls of a cost row pass to updateCostRow.
CostPatches ==
  {(COST_KEYS[n] :> Num(toNum(NumberOfMoney(t)))) : n \in 1..7, t \in MoneyTexts}
    \cup {[note |-> "paid late"], [paid |-> TRUE], [month |-> "2024-02"]}

RentOp(name, a, b, patch) ==
  [op |-> name, c |-> Null, a |-> a, b |-> b, patch |-> patch, text |-> NoText,
   save |-> "none", was |-> "synced"]

\* setProfile / setState and what follows: the write of saveState under KEY,
\* the render, and after a render that did not throw the two persist effects.
RentCommit(profile, state, op) ==
  /\ app' = [profile |-> profile, state |-> state]
  /\ prev' = [app |-> app, stored |-> stored, reads |-> reads]
  /\ last' = op
  /\ UNCHANGED <<deleted, download>>
  /\ IF RentRenders(state)
     THEN /\ phase' = "ready"
          /\ stored' = [profile |-> JsonText(profile), state |-> JsonText(state)]
     ELSE /\ phase' = "crashed"
          /\ stored' = [stored EXCEPT !.state = JsonText(state)]

RentUserOp ==
  /\ phase = "ready"
  /\ ops < MaxRentOps
  /\ ops' = ops + 1

RentInit ==
  /\ phase = "boot"
  /\ stored \in RentSlots
  /\ app = [profile |-> DefaultProfile, state |-> [unit |-> DefaultUnit]]
  /\ toast = Null
  /\ reads = <<>>
  /\ nextId = 0
  /\ ops = 0
  /\ last = RentOp("init", Null, Null, NoPatch)
  /\ prev = [app |-> app, stored |-> stored, reads |-> reads]
  /\ deleted = {}
  /\ download = NoDownload

\* App is called: useState(loadProfile()) and useState(loadState()) evaluate
\* their arguments.  React may call a component again before it commits.
renderApp ==
  /\ phase = "boot"
  /\ ops < MaxRenders
  /\ ops' = ops + 1
  /\ app' = [profile |-> loadProfile(stored.profile),
             state |-> loadState(stored.state, nextId)]
  /\ nextId' = nextId + loadStateUids(stored.state)
  /\ prev' = [app |-> app, stored |-> stored, reads |-> reads]
  /\ last' = RentOp("renderApp", stored.state.t, Null, NoPatch)
  /\ UNCHANGED <<phase, stored, toast, reads, deleted, download>>

\* The render is committed and the persist effects run.
RentMount ==
  /\ phase = "boot"
  /\ ops >= 1
  /\ ops' = 0
  /\ RentCommit(app.profile, app.state, RentOp("mount", stored.state.t, Null, NoPatch))
  /\ UNCHANGED <<toast, reads, nextId>>

editProfile(text) ==
  /\ RentUserOp
  /\ RentCommit(Merge(app.profile, [user |-> text]), app.state,
                RentOp("editProfile", Null, Null, [user |-> text]))
  /\ UNCHANGED <<toast, reads, nextId>>

updateSettings(patch) ==
  /\ RentUserOp
  /\ RentCommit(app.profile,
                saveState(Merge(app.state, [settings |-> Merge(app.state.settings, patch)])),
                RentOp("updateSettings", Null, Null, patch))
  /\ UNCHANGED <<toast, reads, nextId>>

updateUnit(patch) ==
  /\ RentUserOp
  /\ RentCommit(app.profile,
                saveState(Merge(app.state, [unit |-> Merge(app.state.unit, patch)])),
                RentOp("updateUnit", Null, Null, patch))
  /\ UNCHANGED <<toast, reads, nextId>>

addCostRow ==
  /\ RentUserOp
  /\ nextId' = nextId + 1
  /\ LET row == recalcCostRow(NewCostRow(RentUid(nextId)))
     IN RentCommit(app.profile,
                   saveState(Merge(app.state,
                                   [costs |-> Prepend(row, ArrOr(app.state, "costs"))])),
                   RentOp("addCostRow", Null, row.id, NoPatch))
  /\ UNCHANGED <<toast, reads>>

updateCostRow(id, patch) ==
  /\ RentUserOp
  /\ LET costs == ArrOr(app.state, "costs")
         mapped == [n \in 1..Len(costs) |->
                      IF costs[n].id = id THEN recalcCostRow(Merge(costs[n], patch))
                      ELSE costs[n]]
     IN RentCommit(app.profile, saveState(Merge(app.state, [costs |-> mapped])),
                   RentOp("updateCostRow", Null, id, patch))
  /\ UNCHANGED <<toast, reads, nextId>>

deleteCostRow(id) ==
  /\ RentUserOp
  /\ RentCommit(app.profile,
                saveState(Merge(app.state,
                                [costs |-> RemoveEntity(ArrOr(app.state, "costs"), id)])),
                RentOp("deleteCostRow", Null, id, NoPatch))
  /\ UNCHANGED <<toast, reads, nextId>>

\* importJSON(file): a FileReader is started; profile is the one of the
\* render whose input was used.
RentImportJSON(file) ==
  /\ RentUserOp
  /\ Len(reads) < MaxReads
  /\ reads' = Append(reads, [text |-> file, profile |-> app.profile])
  /\ phase' = phase
  /\ prev' = [app |-> app, stored |-> stored, reads |-> reads]
  /\ last' = [RentOp("importJSON", Null, Null, NoPatch) EXCEPT !.text = file]
  /\ UNCHANGED <<app, stored, toast, nextId, deleted, download>>

\* The data of a parsed file: parsed?.data, an object without properties
\* when there is none.
IncomingOf(text) ==
  IF text.t = "obj" /\ "data" \in DOMAIN text.v THEN text.v.data ELSE <<>>

\* !(!incoming?.unit || !Array.isArray(incoming?.costs))
AcceptsImport(text) ==
  "unit" \in DOMAIN IncomingOf(text) /\ "costs" \in DOMAIN IncomingOf(text)

\* reader.onload
importLoaded(k) ==
  /\ phase = "ready"
  /\ k \in 1..Len(reads)
  /\ reads' = DropRead(k)
  /\ UNCHANGED <<nextId, ops>>
  /\ LET r == reads[k]
         op == [RentOp("importLoaded", Null, Null, NoPatch) EXCEPT !.text = r.text]
     IN IF AcceptsImport(r.text)
        THEN /\ RentCommit(IF "profile" \in DOMAIN r.text.v THEN r.text.v.profile
                           ELSE r.profile,
                           saveState(IncomingOf(r.text)), op)
             /\ toast' = toast
        ELSE /\ toast' = IF r.text.t = "garbage"
                         THEN "Import failed: Unexpected token"
                         ELSE "Import failed: Invalid import file"
             /\ prev' = [app |-> app, stored |-> stored, reads |-> reads]
             /\ last' = op
             /\ UNCHANGED <<phase, app, stored, deleted, download>>

SettingsInputs == {[currency |-> "USD"], [currency |-> ""]}

UnitInputs == {[label |-> "Flat 3"], [rentWarm |-> Num(toNum(NumberOfMoney("700")))]}

RentNext ==
  \/ renderApp
  \/ RentMount
  \/ \E t \in {"Ana"} : editProfile(t)
  \/ \E p \in SettingsInputs : updateSettings(p)
  \/ \E p \in UnitInputs : updateUnit(p)
  \/ addCostRow
  \/ \E id \in IdSet(ArrOr(app.state, "costs")), p \in CostPatches : updateCostRow(id, p)
  \/ \E id \in IdSet(ArrOr(app.state, "costs")) : deleteCostRow(id)
  \/ \E f \in RentFiles : RentImportJSON(f)
  \/ \E k \in 1..Len(reads) : importLoaded(k)

RentSpec == RentInit /\ [][RentNext]_vars

\* -------------------------------------------------------------- properties

\* The entities of coll whose id is not id, in order.
Others(coll, id) ==
  LET Keep(e) == e.id # id
  IN SelectSeq(coll, Keep)

\* o2 has the properties of o with the same values, but for those in ks.
SameExcept(o, o2, ks) ==
  \A k \in (DOMAIN o \cup DOMAIN o2) \ ks :
    k \in DOMAIN o /\ k \in DOMAIN o2 /\ o[k] = o2[k]

\* coll2 is coll but for the properties ks of the entities whose id is id.
OnlyPatched(coll, coll2, id, ks) ==
  /\ Len(coll2) = Len(coll)
  /\ \A n \in 1..Len(coll) :
       IF coll[n].id = id THEN SameExcept(coll[n], coll2[n], ks \ {"id"})
       ELSE coll2[n] = coll[n]

\* coll2 is coll, with or without the entities whose id is id.
OnlyRemoved(coll, coll2, id) == coll2 = coll \/ coll2 = Others(coll, id)

UpdateOps ==
  {"updateDefect", "updateIncident", "updateDocument", "updateLetter", "updateEvidenceLink"}

DeleteOps ==
  {"deleteDefect", "deleteIncident", "deleteDocument", "deleteLetter",
   "deleteEvidenceLink", "deleteAttachment"}

NestedOps ==
  {"addEvidenceLink", "updateEvidenceLink", "deleteEvidenceLink", "attachmentLoaded",
   "deleteAttachment"}

\* The collection of a case, and of an incident, that a handler works on.
CaseKey(op) ==
  CASE op \in {"addDefect", "updateDefect", "deleteDefect"} -> "defects"
    [] op \in {"addDocument", "updateDocument", "deleteDocument"} -> "documents"
    [] op \in {"generateLetter", "updateLetter", "deleteLetter"} -> "letters"
    [] OTHER -> "incidents"

NestedKey(op) ==
  IF op \in {"addEvidenceLink", "updateEvidenceLink", "deleteEvidenceLink"}
  THEN "evidence" ELSE "attachments"

CollFrame(op, coll, coll2, id, patch) ==
  IF op \in UpdateOps THEN OnlyPatched(coll, coll2, id, DOMAIN patch)
  ELSE OnlyRemoved(coll, coll2, id)

IncidentsFrame(op, incs, incs2, incidentId, id, patch) ==
  /\ Len(incs2) = Len(incs)
  /\ \A n \in 1..Len(incs) :
       IF incs[n].id # incidentId THEN incs2[n] = incs[n]
       ELSE /\ SameExcept(incs[n], incs2[n], {NestedKey(op)})
            /\ CollFrame(op, ArrOr(incs[n], NestedKey(op)), ArrOr(incs2[n], NestedKey(op)),
                         id, patch)

\* C1: after an update or delete handler of the active case A ran,
\* activeCaseId and ui, every case other than A, every property of A other
\* than the collection worked on, and every entity of that collection other
\* than the targeted one are as the handler found them (values and order);
\* an update changed at most the patched properties of the targeted entity.
C1_CrudIsolation ==
  last.op \in UpdateOps \cup DeleteOps =>
    LET A == activeCase(prev.app)
        op == last.op
    IN /\ SameExcept(prev.app, app, {"cases"})
       /\ Len(app.cases) = Len(prev.app.cases)
       /\ \A n \in 1..Len(prev.app.cases) :
            IF prev.app.cases[n].id # A.id THEN app.cases[n] = prev.app.cases[n]
            ELSE /\ SameExcept(prev.app.cases[n], app.cases[n], {CaseKey(op)})
                 /\ IF op \in NestedOps
                    THEN IncidentsFrame(op, ArrOr(prev.app.cases[n], "incidents"),
                                        ArrOr(app.cases[n], "incidents"),
                                        last.a, last.b, last.patch)
                    ELSE CollFrame(op, ArrOr(prev.app.cases[n], CaseKey(op)),
                                   ArrOr(app.cases[n], CaseKey(op)),
                                   last.b, last.patch)

\* A defect of the active case was patched while the case has a sibling
\* defect, other collections with entities, and a sibling case.
C1_Witness ==
  /\ last.op = "updateDefect"
  /\ Len(app.cases) >= 2
  /\ activeCase(app) # NoCase
  /\ Len(activeCase(app).defects) >= 2
  /\ Len(activeCase(app).incidents) >= 1
  /\ \E n \in 1..Len(activeCase(app).defects) :
       /\ activeCase(app).defects[n].id = last.b
       /\ activeCase(app).defects[n].status = "resolved"

\* The case of a document with this id, NoCase when there is none.
CaseById(doc, id) ==
  IF \E n \in 1..Len(doc.cases) : doc.cases[n].id = id
  THEN doc.cases[CHOOSE n \in 1..Len(doc.cases) : doc.cases[n].id = id]
  ELSE NoCase

IncidentById(c, id) ==
  IF \E n \in 1..Len(ArrOr(c, "incidents")) : c.incidents[n].id = id
  THEN c.incidents[CHOOSE n \in 1..Len(c.incidents) : c.incidents[n].id = id]
  ELSE NoIncident

\* The object that owns the collection a creation works on, and the collection.
ParentOf(doc, op, c, a) ==
  IF op \in NestedOps THEN IncidentById(CaseById(doc, c), a) ELSE CaseById(doc, c)

CollOf(doc, op, c, a) ==
  ArrOr(ParentOf(doc, op, c, a), IF op \in NestedOps THEN NestedKey(op) ELSE CaseKey(op))

CreateOps ==
  {"addDefect", "addIncident", "addDocument", "addEvidenceLink", "attachmentLoaded",
   "generateLetter"}

\* C2: after a creation handler (for addAttachment: its continuation once
\* the file is read) made an entity for a case and collection that existed,
\* the new entity is at index 0, the collection is exactly one longer than
\* the handler found it, and the earlier entities are in their order.
C2_AddOrdering ==
  (/\ last.op \in CreateOps
   /\ last.b # Null
   /\ ParentOf(prev.app, last.op, last.c, last.a) # NoCase) =>
    LET coll == CollOf(prev.app, last.op, last.c, last.a)
        coll2 == CollOf(app, last.op, last.c, last.a)
    IN /\ Len(coll2) = Len(coll) + 1
       /\ coll2[1].id = last.b
       /\ Ids(Tail(coll2)) = Ids(coll)

\* The document with every collection a case or an incident lacks read as
\* the empty collection.
NormIncident(i) ==
  [evidence |-> ArrOr(i, "evidence"), attachments |-> ArrOr(i, "attachments")] @@ i

NormCase(c) ==
  [defects |-> ArrOr(c, "defects"), documents |-> ArrOr(c, "documents"),
   letters |-> ArrOr(c, "letters"),
   incidents |-> [n \in 1..Len(ArrOr(c, "incidents")) |-> NormIncident(c.incidents[n])]] @@ c

NormDoc(doc) == [cases |-> [n \in 1..Len(doc.cases) |-> NormCase(doc.cases[n])]] @@ doc

\* The id the last update or delete handler was given is carried by no
\* entity of the collection it works on.
TargetMissing ==
  LET op == last.op
      A == activeCase(prev.app)
  IN IF op \in NestedOps
     THEN last.b \notin IdSet(ArrOr(IncidentById(A, last.a), NestedKey(op)))
     ELSE last.b \notin IdSet(ArrOr(A, CaseKey(op)))

\* C3: after an update or delete handler ran whose id matches no entity of
\* the target collection, the document is as the handler found it: no entity
\* was made, changed or removed in any collection (a collection that is
\* absent counts as empty), and the component is still mounted.
C3_MissingIdNoOp ==
  (last.op \in UpdateOps \cup DeleteOps /\ TargetMissing) =>
    /\ NormDoc(app) = NormDoc(prev.app)
    /\ phase = "ready"

\* A confirmed deleteDefect named an id that no defect of the active case
\* carries, while the case has defects.
C3_Witness ==
  /\ last.op = "deleteDefect"
  /\ last.patch = [ok |-> TRUE]
  /\ last.b = GhostId
  /\ last.save = "ok"
  /\ activeCase(app) # NoCase
  /\ Len(activeCase(app).defects) >= 2

\* A payload with the four properties of a single case and no cases array.
HasSingleCaseShape(p) ==
  {"id", "title", "defects", "incidents"} \subseteq DOMAIN p /\ "cases" \notin DOMAIN p

\* C4: after the import of a payload with id, title, defects and incidents
\* and no cases array, the payload is at index 0 of cases, no other case has
\* its id, every other case is kept in order, and the payload is the active
\* case.
C4_SingleCaseUpsert ==
  (/\ last.op = "importJSON"
   /\ last.text.t = "obj"
   /\ HasSingleCaseShape(last.text.v)) =>
    /\ app.cases = <<last.text.v>> \o Others(prev.app.cases, last.text.v.id)
    /\ Get(app, "activeCaseId") = last.text.v.id

\* C5: after the import of a payload with a cases array, the payload is the
\* whole document, whatever the document held and whether or not the payload
\* also has the properties of a single case; the persist effect ran, and the
\* slot holds the payload when the storage accepted it.
C5_FullImportReplaces ==
  (/\ last.op = "importJSON"
   /\ last.text.t = "obj"
   /\ "cases" \in DOMAIN last.text.v) =>
    /\ app = last.text.v
    /\ last.save # "none"
    /\ (TextChars(last.text) <= QuotaChars => stored = last.text)

\* A payload with a cases array and the properties of a single case was
\* imported: it is the document, and the slot holds it.
C5_Witness ==
  /\ last.op = "importJSON"
  /\ last.text = JsonText(HybridPayload)
  /\ prev.app = SavedDoc
  /\ app = HybridPayload
  /\ stored = JsonText(HybridPayload)

\* C6: after the import of text that does not parse, or of a payload with
\* neither a cases array nor all of id, title, defects and incidents, the
\* document and the slot are as the import found them.
C6_RejectedImportUnchanged ==
  (/\ last.op = "importJSON"
   /\ \/ last.text.t # "obj"
      \/ /\ "cases" \notin DOMAIN last.text.v
         /\ ~({"id", "title", "defects", "incidents"} \subseteq DOMAIN last.text.v)) =>
    /\ app = prev.app
    /\ stored = prev.stored

\* A payload of an unsupported shape was imported into a document with cases.
C6_Witness ==
  /\ last.op = "importJSON"
  /\ last.text = JsonText([id |-> "x3", title |-> "T"])
  /\ toast = "JSON recognized, but format not supported"
  /\ app = SavedDoc
  /\ stored = JsonText(SavedDoc)

\* C7: loading the serialization of the document yields the document.
C7_RoundTrip == phase = "ready" => LoadDoc(Stringify(app)) = app

\* C8: after the component mounted on a slot that was absent or held text
\* that does not parse, the document is the default empty document and the
\* component is mounted.
C8_LoadDefaults ==
  (last.op = "mount" /\ prev.stored.t \in {"absent", "garbage"}) =>
    /\ app = [activeCaseId |-> Null, cases |-> <<>>,
              ui |-> [tab |-> "snapshot", query |-> ""]]
    /\ phase = "ready"

\* The component mounted on a slot whose text does not parse.
C8_Witness ==
  /\ last.op = "mount"
  /\ prev.stored = Garbage
  /\ phase = "ready"
  /\ app.cases = <<>>

\* C9: after a step changed the document, the save of the whole document
\* ran: the slot holds the serialization of the new document if the storage
\* accepts it, and is as the step found it if not.
C9_EveryChangeSaved ==
  (phase = "ready" /\ app # prev.app) =>
    IF TextChars(Stringify(app)) <= QuotaChars
    THEN stored = Stringify(app)
    ELSE stored = prev.stored

\* A change of ui alone was saved.
C9_Witness ==
  /\ last.op = "setUi"
  /\ last.save = "ok"
  /\ app.ui.query = "flat"
  /\ prev.app.ui.query = ""
  /\ Len(app.cases) >= 2
  /\ stored = Stringify(app)

\* C10: after a handler whose write the storage rejected, memory holds the
\* document that was refused and the slot what the last accepted write put
\* there; a handler that did not change the document did not change the
\* slot; and after a handler whose write was accepted the slot holds the
\* document again.
C10_RejectedWrite ==
  (phase = "ready" /\ last.op # "mount") =>
    /\ last.save = "rejected" =>
         /\ stored = prev.stored
         /\ TextChars(Stringify(app)) > QuotaChars
         /\ stored # Stringify(app)
    /\ app = prev.app => stored = prev.stored
    /\ last.save = "ok" => stored = Stringify(app)

\* A write was accepted after one that was rejected: the slot holds the
\* document again.
C10_Witness ==
  /\ last.save = "ok"
  /\ last.was = "diverged"
  /\ last.op = "deleteAttachment"
  /\ prev.stored # Stringify(prev.app)
  /\ stored = Stringify(app)

\* The texts that Number() reads as a number.
NumericTexts == {"0", "60", "70", "-50"}

\* The defect with the given id in the given case of document a.
DefectById(a, caseId, id) ==
  LET ds == ArrOr(CaseById(a, caseId), "defects")
  IN ds[FindIdx(ds, id)]

\* C11: after the Impact % field of a defect was changed to any text, the
\* defect's impactPercent is a number (never NaN, never undefined), and it is
\* the number 0 when the text was empty or not numeric.
C11_ImpactIsNumber ==
  (/\ last.op = "updateDefect"
   /\ last.a # Null
   /\ last.b \in IdSet(ArrOr(CaseById(app, last.c), "defects")))
  => LET d == DefectById(app, last.c, last.b)
     IN /\ "impactPercent" \in DOMAIN d
        /\ d.impactPercent.t = "num"
        /\ last.a \notin NumericTexts => d.impactPercent = Num(0)

\* A generateLetter call that built a letter from template key.
Generated(key) == last.op = "generateLetter" /\ last.a = key /\ last.b # Null

\* The case that call found, and the letter it made.
LetterCase == CaseById(prev.app, last.c)

NewLetter == CaseById(app, last.c).letters[1]

\* The impact percents of the defects whose status is open, in order.
RECURSIVE OpenPercents(_)
OpenPercents(defects) ==
  IF defects = <<>> THEN <<>>
  ELSE (IF Get(Head(defects), "status") = "open"
        THEN <<NumOrZero(Head(defects), "impactPercent")>> ELSE <<>>)
       \o OpenPercents(Tail(defects))

\* An amount of warm cents reduced by total percent, capped at 100, rounded
\* to the cent.
ExpectedCents(warm, total) ==
  (warm * (100 - (IF total < 100 THEN total ELSE 100)) + 50) \div 100

\* C12: in the rent-reduction letter the displayed total is the uncapped sum
\* of impactPercent over the open defects and the reduced amount is
\* warmRent * (1 - min(total, 100) / 100) rounded to two decimals; impact
\* percents [60, 70] with warm rent 1000 display 130% and a reduced amount 0.
C12_TotalAndReduced ==
  Generated("rent_reduction_notice") =>
    LET c == LetterCase
        defects == ArrOr(c, "defects")
        p == RentReductionParts(c, defects)
        total == SumSeq(OpenPercents(defects))
        warm == NumberOfText(StrOr(c, "rentWarm", ""))
        cents == ExpectedCents(warm, total)
    IN /\ NewLetter.body = Concat(p.en) \o "\n\n- - -\n\n" \o Concat(p.de)
       /\ p.en[8] = ToString(total)
       /\ p.de[8] = ToString(total)
       /\ ReducedCents(warm, total) = cents
       /\ warm # 0 => /\ p.en[12] = "EUR " \o EuroText(cents)
                      /\ p.de[12] = "EUR " \o EuroText(cents)
       /\ (OpenPercents(defects) = <<60, 70>> /\ Get(c, "rentWarm") = "1000")
            => /\ p.en[8] = "130"
               /\ p.en[12] = "EUR 0"
               /\ p.de[8] = "130"
               /\ p.de[12] = "EUR 0"

\* A rent-reduction letter was generated for impact percents [60, 70] and
\* warm rent 1000.
C12_Witness ==
  /\ Generated("rent_reduction_notice")
  /\ OpenPercents(ArrOr(LetterCase, "defects")) = <<60, 70>>
  /\ Get(LetterCase, "rentWarm") = "1000"
  /\ NewLetter.type = "rent_reduction_notice"

\* C13: for every warm rent and every list of defects, the reduced payment
\* that the rent-reduction template computes is never negative.
C13_ReducedNotNegative ==
  Generated("rent_reduction_notice") =>
    LET c == LetterCase
        defects == ArrOr(c, "defects")
    IN ReducedCents(NumberOfText(StrOr(c, "rentWarm", "")), ReductionTotal(defects)) >= 0

\* The bracketed placeholders of the two templates.
Placeholders ==
  {"[address]", "[Adresse]", "[Landlord/Representative]", "[Vermieter/Bevollmaechtigte/r]",
   "[List defects here]", "[Maengel hier auflisten]", "[amount]", "[Betrag]",
   "[Your name]", "[Ihr Name]", "[date]"}

\* A field that is empty or absent.
Blank(o, k) == StrOr(o, k, "") = ""

\* What a substitution must never print.
NoValueTexts == {"", "undefined", "null"}

\* The substitutions of a section: the even positions.
Slots(section) == {section[n] : n \in {m \in 1..Len(section) : m % 2 = 0}}

\* A section prints a placeholder for each case field that is blank.
CaseFieldsPlaceheld(key, c, section) ==
  /\ Blank(c, "address") => section[2] \in Placeholders
  /\ Blank(c, "landlordName") => section[4] \in Placeholders
  /\ Blank(c, "tenantName") => section[Len(section)] \in Placeholders
  /\ (key = "rent_reduction_notice" /\ Blank(c, "rentWarm"))
       => section[10] \in Placeholders /\ section[12] \in Placeholders

\* The title and the start date of a defect line.
LineTitlePlaceheld(d, line) ==
  /\ line[3] \notin NoValueTexts
  /\ Blank(d, "title") => line[3] \in Placeholders

LineDatePlaceheld(d, line) ==
  /\ line[6] \notin NoValueTexts
  /\ Blank(d, "startDate") => line[6] \in Placeholders

\* The room and the impact percent of a defect line.
LineRoomPlaceheld(d, line) == Blank(d, "room") => line[4] \in Placeholders

LineImpactPlaceheld(key, d, line) ==
  key = "rent_reduction_notice" =>
    /\ line[8] \notin NoValueTexts
    /\ "impactPercent" \notin DOMAIN d => line[8] \in Placeholders

\* C14: in both templates every referenced field that is empty or absent
\* (address, landlord name, tenant name, warm rent, a defect's title, room,
\* start date, impact percent) is printed as a bracketed placeholder in each
\* language section, and no substitution prints "undefined", "null" or
\* nothing; a case without landlord name, tenant name and open defects prints
\* "[Landlord/Representative]" and "[List defects here]".
C14_Placeholders ==
  \A key \in TemplateKeys :
    Generated(key) =>
      LET c == LetterCase
          defects == ArrOr(c, "defects")
          open == OpenDefects(defects)
          p == TemplateParts(key, c, defects)
          lines == TemplateLines(key, defects)
      IN /\ NewLetter.body = Concat(p.en) \o "\n\n- - -\n\n" \o Concat(p.de)
         /\ Slots(p.en) \cap NoValueTexts = {}
         /\ Slots(p.de) \cap NoValueTexts = {}
         /\ CaseFieldsPlaceheld(key, c, p.en)
         /\ CaseFieldsPlaceheld(key, c, p.de)
         /\ \A n \in 1..Len(lines) :
              /\ LineTitlePlaceheld(open[n], lines[n])
              /\ LineDatePlaceheld(open[n], lines[n])
              /\ LineRoomPlaceheld(open[n], lines[n])
              /\ LineImpactPlaceheld(key, open[n], lines[n])
         /\ (Blank(c, "landlordName") /\ Blank(c, "tenantName") /\ open = <<>>)
              => /\ p.en[4] = "[Landlord/Representative]"
                 /\ p.en[6] = "[List defects here]"

\* The defects whose status is open, in collection order.
RECURSIVE OnlyOpen(_)
OnlyOpen(defects) ==
  IF defects = <<>> THEN <<>>
  ELSE (IF Get(Head(defects), "status") = "open" THEN <<Head(defects)>> ELSE <<>>)
       \o OnlyOpen(Tail(defects))

\* The line a template prints for defect d as number n.
LineOf(key, d, n) ==
  IF key = "repair_request" THEN DefectLineParts(d, n) ELSE ReductionLineParts(d, n)

\* C15: both templates list exactly the defects whose status is open, in
\* collection order and numbered 1, 2, ...; a defect with any other status
\* is not listed and adds nothing to the rent-reduction total.
C15_OpenDefectsListed ==
  \A key \in TemplateKeys :
    Generated(key) =>
      LET c == LetterCase
          defects == ArrOr(c, "defects")
          expected == OnlyOpen(defects)
          lines == TemplateLines(key, defects)
          p == TemplateParts(key, c, defects)
          listed == JoinLines([n \in 1..Len(lines) |-> Concat(lines[n])])
      IN /\ NewLetter.body = Concat(p.en) \o "\n\n- - -\n\n" \o Concat(p.de)
         /\ Len(lines) = Len(expected)
         /\ \A n \in 1..Len(lines) :
              /\ lines[n][1] = ToString(n)
              /\ lines[n] = LineOf(key, expected[n], n)
         /\ expected # <<>> => p.en[6] = listed /\ p.de[6] = listed
         /\ key = "rent_reduction_notice" => p.en[8] = ToString(SumSeq(OpenPercents(defects)))

\* A letter was generated for a case with a resolved defect between two open
\* ones: the open ones are lines 1 and 2.
C15_Witness ==
  \E key \in TemplateKeys :
    /\ Generated(key)
    /\ LET defects == ArrOr(LetterCase, "defects")
       IN /\ Len(defects) = 3
          /\ Get(defects[2], "status") = "resolved"
          /\ Len(TemplateLines(key, defects)) = 2
          /\ TemplateLines(key, defects)[2][1] = "2"
          /\ TemplateLines(key, defects)[2][3] = defects[3].title

\* The ids of the letters of every case of a document.
LetterIds(doc) == UNION {IdSet(ArrOr(doc.cases[n], "letters")) : n \in 1..Len(doc.cases)}

\* The handlers that edit the defects or the fields of a case.
EditOps == {"editCase", "addDefect", "updateDefect", "deleteDefect"}

\* C16: a generateLetter call with a known template adds exactly one letter
\* with a fresh id at the head of the active case's letters and leaves every
\* letter that was there as it was, also when the same template is generated
\* again; an edit of the defects or of the case fields changes no letter.
C16_LettersAreSnapshots ==
  /\ (last.op = "generateLetter" /\ last.a \in TemplateKeys /\ last.c # Null)
       => LET before == ArrOr(CaseById(prev.app, last.c), "letters")
              after == ArrOr(CaseById(app, last.c), "letters")
          IN /\ Len(after) = Len(before) + 1
             /\ Tail(after) = before
             /\ after[1].id = last.b
             /\ after[1].id \notin LetterIds(prev.app)
             /\ after[1].type = last.a
             /\ \A n \in 1..Len(app.cases) :
                  app.cases[n].id # last.c => app.cases[n] = prev.app.cases[n]
  /\ last.op \in EditOps
       => /\ Len(app.cases) = Len(prev.app.cases)
          /\ \A n \in 1..Len(app.cases) :
               ArrOr(app.cases[n], "letters") = ArrOr(prev.app.cases[n], "letters")

\* The same template was generated twice on one case: two letters of one
\* type with different ids, the earlier one behind the later.
C16_Witness ==
  /\ last.op = "generateLetter"
  /\ last.b # Null
  /\ LET ls == ArrOr(CaseById(app, last.c), "letters")
     IN /\ Len(ls) = 2
        /\ ls[1].type = ls[2].type
        /\ ls[1].id # ls[2].id
        /\ ls[2] = CaseById(prev.app, last.c).letters[1]

\* The ids of the cases of a document.
CaseIds(doc) == IdSet(doc.cases)

\* The ids of the entities a case owns.
IncidentEntityIds(i) == IdSet(ArrOr(i, "evidence")) \cup IdSet(ArrOr(i, "attachments"))

EntityIds(c) ==
  IdSet(ArrOr(c, "defects")) \cup IdSet(ArrOr(c, "incidents"))
    \cup IdSet(ArrOr(c, "documents")) \cup IdSet(ArrOr(c, "letters"))
    \cup UNION {IncidentEntityIds(ArrOr(c, "incidents")[n]) :
                  n \in 1..Len(ArrOr(c, "incidents"))}

AllEntityIds(doc) == UNION {EntityIds(doc.cases[n]) : n \in 1..Len(doc.cases)}

\* deleteCase removed the active case: the case and what it owned are gone.
DeletedCaseIsGone ==
  (last.op = "deleteCase" /\ last.c # Null /\ last.patch = [ok |-> TRUE])
    => /\ last.c \in deleted
       /\ last.c \notin CaseIds(app)
       /\ EntityIds(CaseById(prev.app, last.c)) \cap AllEntityIds(app) = {}

\* The ids of the cases an import file carries.
CarriedIds(text) ==
  IF text.t # "obj" THEN {}
  ELSE IF "cases" \in DOMAIN text.v THEN IdSet(text.v.cases)
  ELSE {Get(text.v, "id")}

\* C17: after a case is deleted, no case with its id and none of its owned
\* entities exist in the document, and whatever is done later (create,
\* import, CRUD) no case with that id is in the document again.
C17_DeletedNeverReturns ==
  /\ DeletedCaseIsGone
  /\ deleted \cap CaseIds(app) = {}

\* C17 as the code has it: after a case is deleted, no case with its id and
\* none of its owned entities exist in the document, and no later create or
\* CRUD operation brings a case with that id into the document; only the
\* import of a file that carries a case with that id does.
C17_DeletedReturnsOnlyByImport ==
  /\ DeletedCaseIsGone
  /\ \A k \in deleted \cap CaseIds(app) :
       \/ k \in CaseIds(prev.app)
       \/ last.op = "importJSON" /\ k \in CarriedIds(last.text)

\* A case was deleted and the import of a file that carries its id has just
\* put a case with that id into the document.
C17_Witness ==
  /\ last.op = "importJSON"
  /\ \E k \in deleted : k \in CaseIds(app) /\ k \notin CaseIds(prev.app)

\* The handlers that remove something.
RemovalOps ==
  {"deleteCase", "deleteDefect", "deleteIncident", "deleteDocument", "deleteLetter",
   "deleteEvidenceLink", "deleteAttachment", "wipeAll"}

\* The handler asked window.confirm and the user agreed.
Confirmed == last.patch = [ok |-> TRUE]

Declined == last.patch = [ok |-> FALSE]

\* C18: every delete handler (deleteCase, deleteDefect, deleteIncident,
\* deleteDocument, deleteLetter, deleteEvidenceLink, deleteAttachment,
\* wipeAll) removes something only after the user confirmed the deletion,
\* and leaves the document as it was when the user declined.
C18_DeleteNeedsConfirm ==
  last.op \in RemovalOps =>
    /\ app # prev.app => Confirmed
    /\ Declined => app = prev.app /\ stored = prev.stored

\* C19: addAttachment with a file of more than 2 * 1024 * 1024 bytes is
\* turned away before any read begins: no read is started, the user is told
\* and the document is unchanged; a file of at most that size passes the
\* check and its read starts.
C19_OversizeRejected ==
  (last.op = "addAttachment" /\ "size" \in DOMAIN last.patch) =>
    IF last.patch.size > 2 * 1024 * 1024
    THEN /\ reads = prev.reads
         /\ toast = "File too large for this prototype (>2MB)."
         /\ app = prev.app
         /\ stored = prev.stored
    ELSE /\ Len(reads) = Len(prev.reads) + 1
         /\ SubSeq(reads, 1, Len(prev.reads)) = prev.reads
         /\ reads[Len(reads)].file.size = last.patch.size
         /\ app = prev.app

\* A file of one byte more than 2 MB was picked for an incident of the
\* active case and turned away.
C19_Witness ==
  /\ last.op = "addAttachment"
  /\ last.patch = [size |-> 2 * 1024 * 1024 + 1]
  /\ last.a \in IdSet(ArrOr(CaseById(app, last.c), "incidents"))
  /\ reads = <<>>
  /\ toast = "File too large for this prototype (>2MB)."

\* The file of the last export was imported.
ImportedDownload ==
  /\ last.op = "importJSON"
  /\ download.text # NoText
  /\ last.text = download.text

\* C20: importing the file that exporting a case c wrote (c any case the
\* application can hold, one with a cleared title included) gives a
\* document that contains a case equal to c; importing the file that
\* exporting the whole document wrote gives a document equal to the
\* exported one.
C20_ExportImportRoundTrip ==
  ImportedDownload =>
    IF "cases" \in DOMAIN download.src
    THEN app = download.src
    ELSE \E n \in 1..Len(app.cases) : app.cases[n] = download.src

\* ------------------------------------------------------------------ C21
\* C21: loading a stored blob that parses as JSON never fails: the component
\* renders whatever the slot held, a document without ui, a case without
\* documents or letters and an incident without evidence or attachments being
\* read as having them empty.
Parseable(slot) == slot.t \in {"null", "obj"}

C21_LoadNeverFails == Parseable(stored) => phase # "crashed"

\* ------------------------------------------------------------------ C22
\* C22: when a stored document that lacks newer optional fields is loaded
\* twice in a row with no write in between, the second load gives the same
\* state as the first, the ids and contents of the defaulted collections
\* included.
C22_LoadTwiceSame ==
  (phase = "boot" /\ ops >= 2 /\ stored.state.t = "obj")
    => app.state = prev.app.state

\* ------------------------------------------------------------------ C29
\* The value a component counts with: its number when it is a finite number
\* (or a text that reads as one), 0 when it is missing or anything else.
FiniteOrZero(row, k) ==
  IF k \in DOMAIN row /\ row[k].t \in {"num", "numstr"} THEN row[k].v ELSE 0

SevenSum(row) ==
  FiniteOrZero(row, "rent") + FiniteOrZero(row, "utilities")
    + FiniteOrZero(row, "electricity") + FiniteOrZero(row, "internet")
    + FiniteOrZero(row, "parking") + FiniteOrZero(row, "furniture")
    + FiniteOrZero(row, "other")

\* n, in thousandths, rounded to the nearest hundredth, a half upwards.
ToTwoDecimals(n) ==
  LET lower == n - (n % 10)
  IN IF n - lower < 5 THEN lower ELSE lower + 10

TotalIsSum(row) == row.total = Num(ToTwoDecimals(SevenSum(row)))

\* C29: a cost row that addCostRow created or updateCostRow changed has a
\* total equal to the sum of its seven components, a component that is no
\* finite number counting as 0, rounded to two decimals; updateCostRow leaves
\* every row with another id as it was.
C29_CostRowTotal ==
  /\ last.op = "addCostRow" =>
       /\ app.state.costs[1].id = last.b
       /\ TotalIsSum(app.state.costs[1])
       /\ Tail(app.state.costs) = ArrOr(prev.app.state, "costs")
  /\ last.op = "updateCostRow" =>
       /\ Len(app.state.costs) = Len(ArrOr(prev.app.state, "costs"))
       /\ \A n \in 1..Len(app.state.costs) :
            IF prev.app.state.costs[n].id = last.b
            THEN TotalIsSum(app.state.costs[n])
            ELSE app.state.costs[n] = prev.app.state.costs[n]

\* updateCostRow changed a row that holds a text where a number belongs and
\* whose sum has a third decimal, next to a row with another id.
C29_Witness ==
  /\ last.op = "updateCostRow"
  /\ \E n, m \in 1..Len(app.state.costs) :
       /\ app.state.costs[n].id = last.b
       /\ Field(app.state.costs[n], "utilities").t = "str"
       /\ SevenSum(app.state.costs[n]) % 10 # 0
       /\ app.state.costs[m].id # last.b

\* ------------------------------------------------------------------ C30
Sections == {"settings", "unit", "costs", "issues", "incidents", "evidence"}

SectionsDefined == Sections \subseteq DOMAIN app.state

\* The import that has just called back was given data without unit or
\* without a costs array.
LacksUnitOrCosts ==
  /\ last.op = "importLoaded"
  /\ ~("unit" \in DOMAIN IncomingOf(last.text) /\ "costs" \in DOMAIN IncomingOf(last.text))

\* C30: in the RentIt variant the state in memory has its settings, unit,
\* costs, issues, incidents and evidence sections defined in every state
\* after the load of the stored blob and after every accepted import, and
\* an import whose data lacks unit or a costs array leaves state, profile
\* and the stored blob as they were.
C30_SectionsDefined ==
  /\ last.op # "init" => SectionsDefined
  /\ LacksUnitOrCosts => (app = prev.app /\ stored = prev.stored)

\* ------------------------------------------------------------------ C23
ImportRejected ==
  last.op = "importJSON" /\ (last.text.t # "obj" \/ ClassifyImport(last.text.v) = "unsupported")

WriteRejected == last.save = "rejected"

\* C23: whenever a storage write or an import has been rejected, a
\* notification is on display, whether a case is active or not.
C23_RejectionIsShown == (ImportRejected \/ WriteRejected) => ToastShown

\* ------------------------------------------------------------------ C24
\* The attachment read that has just completed was started on an incident
\* of the case its closure holds.
ReadCompleted ==
  /\ last.op = "attachmentLoaded"
  /\ \E k \in 1..Len(prev.reads) :
       /\ prev.reads[k].incidentId = last.a
       /\ prev.reads[k].ac.id = last.c
       /\ findIncident(prev.reads[k].ac, last.a) # NoIncident

\* The incident of that read was no longer in the document when the read
\* completed: it, or its whole case, had been deleted.
IncidentGone == IncidentById(CaseById(prev.app, last.c), last.a) = NoIncident

\* C24: when the incident of an attachment read, or its case, was deleted
\* while the read was in flight, the completion of the read is a no-op: the
\* incident is not created again and nothing else changes.
C24_ReadAfterDeleteIsNoOp == (ReadCompleted /\ IncidentGone) => app = prev.app

\* ------------------------------------------------------------------ C25
\* incs2 is incs with one attachment, of id attId, put before the
\* attachments of the incident incidentId.
OneAttachmentAdded(incs, incs2, incidentId, attId) ==
  /\ OnlyPatched(incs, incs2, incidentId, {"attachments"})
  /\ \A n \in 1..Len(incs) :
       incs[n].id = incidentId =>
         /\ ArrOr(incs2[n], "attachments") # <<>>
         /\ Head(incs2[n].attachments).id = attId
         /\ Tail(incs2[n].attachments) = ArrOr(incs[n], "attachments")

\* C25: whatever was committed to the incidents of the case while an
\* attachment read was in flight is in the document after the read has
\* completed: the completion adds the one attachment to the document as it
\* finds it and changes nothing else.
C25_ReadKeepsChanges ==
  (ReadCompleted /\ ~IncidentGone) =>
    /\ SameExcept(prev.app, app, {"cases"})
    /\ OnlyPatched(prev.app.cases, app.cases, last.c, {"incidents"})
    /\ OneAttachmentAdded(ArrOr(CaseById(prev.app, last.c), "incidents"),
                          ArrOr(CaseById(app, last.c), "incidents"), last.a, last.b)

\* ------------------------------------------------------------------ C26
\* C26: in every state reached from the empty document by createCase, case
\* selection, deleteCase, the CRUD handlers, letter generation, single-case
\* import, wipeAll and the import of a document exported before,
\* activeCaseId is null or the id of a case of the document.
C26_ActiveCaseExists ==
  app.activeCaseId = Null \/ app.activeCaseId \in IdSet(app.cases)

\* A whole-document export was imported after a case had been deleted, and a
\* case is active.
C26_Witness ==
  /\ last.op = "importJSON"
  /\ last.text = download.text
  /\ last.text.t = "obj"
  /\ IsFullDoc(last.text.v)
  /\ deleted # {}
  /\ app.activeCaseId # Null

\* ------------------------------------------------------------------ C27
\* C27: in every state reached from the empty document by createCase,
\* deleteCase, the CRUD handlers, single-case import and wipeAll, no two
\* cases of the document have the same id.
C27_CaseIdsDistinct ==
  \A n, m \in 1..Len(app.cases) : app.cases[n].id = app.cases[m].id => n = m

\* A single case was imported into a document that held a case with its id,
\* next to another case.
C27_Witness ==
  /\ last.op = "importJSON"
  /\ last.text.t = "obj"
  /\ ClassifyImport(last.text.v) = "single"
  /\ last.text.v.id \in IdSet(prev.app.cases)
  /\ Len(app.cases) >= 2

\* ------------------------------------------------------------------ C28
\* C28: after a confirmed deleteCase the deleted case is absent, the other
\* cases are as they were and in the same order, activeCaseId is the id of
\* the first of them, or null when there is none, and ui.tab is "snapshot";
\* with no active case deleteCase changes nothing.
C28_DeleteCase ==
  last.op = "deleteCase" =>
    IF activeCase(prev.app) = NoCase
    THEN app = prev.app /\ stored = prev.stored
    ELSE last.patch.ok =>
           /\ last.c \notin IdSet(app.cases)
           /\ app.cases = Others(prev.app.cases, last.c)
           /\ app.activeCaseId = IF app.cases = <<>> THEN Null ELSE app.cases[1].id
           /\ app.ui.tab = "snapshot"

\* A case was deleted after the confirmation and two or more cases remain.
C28_Witness ==
  /\ last.op = "deleteCase"
  /\ last.patch.ok
  /\ last.c # Null
  /\ Len(app.cases) >= 2

\* deleteCase was called with no active case.
C28_WitnessNoCase == last.op = "deleteCase" /\ activeCase(prev.app) = NoCase

====
